---- MODULE Spec2Model ----
(***************************************************************************)
(* Conversation engine (GeminiChat) of the agent runtime: the history,     *)
(* the send pipeline, the streaming retry loop and the stream drain; the   *)
(* process executor (ShellExecutionService); the sub-agent run behind the  *)
(* planning tool (SubAgentScope, PlanningTool).                            *)
(***************************************************************************)
EXTENDS Integers, Sequences, FiniteSets, TLC

(* ------------------------------ bounds -------------------------------- *)

\* Number of send calls a caller issues on one engine.
MaxCalls == 2
\* Longest chunk sequence a content generator delivers on one stream.
MaxChunks == 2
\* Longest history handed to the constructor.
MaxHist == 3
\* Most model contents in one output handed to recordHistory.
MaxOutputs == 2
\* Most chunks a spawned command prints.
MaxPrints == 2
\* Largest turn budget and time budget of a sub-agent run by another caller
\* than the planning tool.
MaxTurns == 2
MaxMinutes == 1

(* ---------------------------- constants ------------------------------- *)

\* Mutant of MAX_RETRIES: one retry too many.
MaxRetriesOneMore == 2 + 1

\* const MAX_RETRIES = 2 in sendMessageStream.
MAX_RETRIES == 2
\* Attempt cap of retryWithBackoff (utils/retry.js).
RetryMaxAttempts == 2

DEFAULT_GEMINI_FLASH_MODEL == "flash"
ProModel == "pro"

Calls == 1..MaxCalls

(* ------------------------------- parts -------------------------------- *)

Undefined == "undefined"

TextPart(t) ==
  [text |-> t, thought |-> FALSE, functionCall |-> FALSE, functionResponse |-> FALSE]
ThoughtPart ==
  [text |-> "th", thought |-> TRUE, functionCall |-> FALSE, functionResponse |-> FALSE]
FunctionCallPart ==
  [text |-> Undefined, thought |-> FALSE, functionCall |-> TRUE, functionResponse |-> FALSE]
FunctionResponsePart ==
  [text |-> Undefined, thought |-> FALSE, functionCall |-> FALSE, functionResponse |-> TRUE]
\* A part with no populated field: Object.keys(part).length === 0.
EmptyPart ==
  [text |-> Undefined, thought |-> FALSE, functionCall |-> FALSE, functionResponse |-> FALSE]

\* Object.keys(part).length === 0
HasNoKeys(part) ==
  /\ part.text = Undefined
  /\ ~part.thought
  /\ ~part.functionCall
  /\ ~part.functionResponse

\* A turn. id tags the exchange whose code created the object (0: handed in
\* from outside), so that record equality stands for object identity.
Content(role, parts, id) == [role |-> role, parts |-> parts, id |-> id]

(* ------------------------- validity of content ------------------------ *)

\* Mutant of isValidContent: a content with parts is valid.
isValidContentWithParts(content) == Len(content.parts) > 0

isValidContent(content) ==
  /\ Len(content.parts) > 0
  /\ \A k \in 1..Len(content.parts) :
       LET part == content.parts[k] IN
         /\ ~HasNoKeys(part)
         /\ ~(~part.thought /\ part.text # Undefined /\ part.text = "")

\* A response (or chunk) is modelled by candidates[0].content, or NoContent
\* when there is no candidate or the candidate carries no content.
NoContent == [role |-> Undefined, parts |-> <<>>, id |-> 0]

isValidResponse(response) ==
  /\ response # NoContent
  /\ isValidContent(response)

\* Mutant of validateHistory: only the first turn's role is looked at.
validateHistoryFirstTurnOnly(h) ==
  Len(h) = 0 \/ h[1].role = "user" \/ h[1].role = "model"

validateHistory(h) ==
  \A k \in 1..Len(h) : h[k].role = "user" \/ h[k].role = "model"

\* First index >= i whose turn is not a model turn (Len(h)+1 when none).
RECURSIVE ModelRunEnd(_, _)
ModelRunEnd(h, i) ==
  IF i <= Len(h) /\ h[i].role = "model" THEN ModelRunEnd(h, i + 1) ELSE i

RECURSIVE CurateFrom(_, _, _)
CurateFrom(h, i, curatedHistory) ==
  IF i > Len(h) THEN curatedHistory
  ELSE IF h[i].role = "user"
       THEN CurateFrom(h, i + 1, Append(curatedHistory, h[i]))
       ELSE LET j == ModelRunEnd(h, i)
                modelOutput == SubSeq(h, i, j - 1)
                isValid == \A k \in i..(j - 1) : isValidContent(h[k])
            IN  CurateFrom(h, j, IF isValid THEN curatedHistory \o modelOutput
                                            ELSE curatedHistory)

extractCuratedHistory(comprehensiveHistory) ==
  CurateFrom(comprehensiveHistory, 1, <<>>)

(* --------------------------- recordHistory ---------------------------- *)

isTextContent(content) ==
  /\ content.role = "model"
  /\ Len(content.parts) > 0
  /\ content.parts[1].text # Undefined
  /\ content.parts[1].text # ""

isThoughtContent(content) ==
  /\ content.role = "model"
  /\ Len(content.parts) > 0
  /\ content.parts[1].thought

NotThoughtContent(content) == ~isThoughtContent(content)

\* utils/messageInspectors: a user turn all of whose parts are function responses.
isFunctionResponse(content) ==
  /\ content.role = "user"
  /\ \A k \in 1..Len(content.parts) : content.parts[k].functionResponse

\* lastContent.parts[0].text += content.parts[0].text; the other parts of
\* content are pushed after the parts lastContent already has.
MergeTextContent(lastContent, content) ==
  [lastContent EXCEPT !.parts =
     <<[lastContent.parts[1] EXCEPT !.text = @ \o content.parts[1].text]>>
       \o Tail(lastContent.parts) \o Tail(content.parts)]

RECURSIVE ConsolidateFrom(_, _, _)
ConsolidateFrom(outputContents, k, consolidated) ==
  IF k > Len(outputContents) THEN consolidated
  ELSE LET content == outputContents[k]
           n == Len(consolidated)
       IN  IF isThoughtContent(content)
           THEN ConsolidateFrom(outputContents, k + 1, consolidated)
           ELSE IF n > 0 /\ isTextContent(consolidated[n]) /\ isTextContent(content)
                THEN ConsolidateFrom(outputContents, k + 1,
                       [consolidated EXCEPT ![n] = MergeTextContent(@, content)])
                ELSE ConsolidateFrom(outputContents, k + 1,
                       Append(consolidated, content))

\* Mutant of EmptyModelResponse: the placeholder is made for every input.
EmptyModelResponseAlways(userInput, id) == <<Content("model", <<>>, id)>>

\* The empty model content recordHistory makes up when the model returned
\* nothing, unless the input was a function response; id tags the turn.
EmptyModelResponse(userInput, id) ==
  IF ~isFunctionResponse(userInput)
  THEN <<Content("model", <<>>, id)>>
  ELSE <<>>

\* The history after recordHistory(userInput, modelOutput, afcHistory) ran on h;
\* id tags the placeholder turn the call creates.
recordHistory(h, userInput, modelOutput, automaticFunctionCallingHistory, id) ==
  LET nonThoughtModelOutput == SelectSeq(modelOutput, NotThoughtContent)
      outputContents ==
        IF /\ Len(nonThoughtModelOutput) > 0
           /\ \A k \in 1..Len(nonThoughtModelOutput) :
                nonThoughtModelOutput[k].role # Undefined
        THEN nonThoughtModelOutput
        ELSE IF Len(nonThoughtModelOutput) = 0 /\ Len(modelOutput) > 0
             THEN <<>>
             ELSE EmptyModelResponse(userInput, id)
      hasAfc == Len(automaticFunctionCallingHistory) > 0
      pushed == IF hasAfc
                THEN h \o extractCuratedHistory(automaticFunctionCallingHistory)
                ELSE Append(h, userInput)
      consolidatedOutputContents == ConsolidateFrom(outputContents, 1, <<>>)
      canMergeWithLastHistory == ~hasAfc
  IN  IF Len(consolidatedOutputContents) = 0 THEN pushed
      ELSE IF /\ canMergeWithLastHistory
              /\ Len(pushed) > 0
              /\ isTextContent(pushed[Len(pushed)])
              /\ isTextContent(consolidatedOutputContents[1])
           THEN [pushed EXCEPT ![Len(pushed)] =
                   MergeTextContent(@, consolidatedOutputContents[1])]
                  \o Tail(consolidatedOutputContents)
           ELSE pushed \o consolidatedOutputContents

(* ------------------------------- state -------------------------------- *)

VARIABLES
  history,             \* GeminiChat.history, the comprehensive history
  sendPromise,         \* GeminiChat.sendPromise: "resolved" or "pending"
  config,              \* config.getModel(), config.getQuotaErrorOccurred()
  calls,               \* per send call: its position and its locals
  constructed,         \* "no", "ok" or "error": outcome of the constructor
  ctorHistory,         \* the history argument of the constructor
  returned,            \* the last getHistory call: its argument and its value
  aliases,             \* which of the caller's arrays are this.history itself
  consolidation,       \* recordHistory's consolidation of an output: input, result
  shell,               \* ShellExecutionService: one execute call and its process
  agent,               \* SubAgentScope: one run, and the planning tool around it
  curation,            \* extractCuratedHistory applied to a history: input, result
  completion           \* usePromptCompletion: the hook's state and its requests

\* The state of the conversation engine, and the state outside of it.
chat == <<history, sendPromise, config, calls,
          constructed, ctorHistory, returned, aliases>>
nonChat == <<consolidation, shell, agent, curation, completion>>

vars == <<chat, nonChat>>

NoError == "none"
QuotaGuardMessage == "Please submit a new query to continue with the Flash model."
EmptyStreamError == "EmptyStreamError: Model stream had invalid chunks"

\* Messages of the errors the content generator raises.
ApiErrors ==
  {"429 Too Many Requests", "400 Bad Request", "503 Service Unavailable",
   "500 maximum schema depth exceeded"}

\* Messages of the errors generateContentStream and its stream raise: the
\* streaming path treats every 5xx alike.
StreamApiErrors == ApiErrors \ {"503 Service Unavailable"}

\* errorMessage.includes('429')
Includes429(errorMessage) == errorMessage = "429 Too Many Requests"
\* errorMessage.match(/5\d{2}/)
Matches5xx(errorMessage) ==
  errorMessage \in {"503 Service Unavailable", "500 maximum schema depth exceeded"}

IdleCall ==
  [pc |-> "idle", method |-> "none", userContent |-> NoContent,
   requestContents |-> <<>>, attempt |-> 0, requests |-> 0,
   lastError |-> NoError, modelResponseParts |-> <<>>,
   isStreamInvalid |-> FALSE, received |-> 0, historyBefore |-> <<>>,
   arrived |-> <<>>, forwarded |-> <<>>, failed |-> FALSE,
   authType |-> "none", accepted |-> "none", fellBack |-> FALSE,
   response |-> [content |-> NoContent,
                 automaticFunctionCallingHistory |-> <<>>]]

\* createUserContent(params.message): a text message or a function response.
\* Only recordHistory looks at which of the two it is, so the streaming
\* calls are given the text message alone.
UserMessages(c, method) ==
  IF method = "sendMessage"
  THEN { Content("user", <<TextPart("q")>>, c),
         Content("user", <<FunctionResponsePart>>, c) }
  ELSE { Content("user", <<TextPart("q")>>, c) }

\* The call ends with outcome pc ("returned", "threw" or "drainThrew"): the
\* request and the generator's locals are gone.
Finished(locals, pc, errorMessage) ==
  [locals EXCEPT !.pc = pc, !.lastError = errorMessage,
                 !.requestContents = <<>>, !.modelResponseParts = <<>>,
                 !.isStreamInvalid = FALSE, !.received = 0,
                 !.arrived = <<>>, !.forwarded = <<>>]

\* Mutant of ReleasedSendPromise: the failing call leaves the promise that
\* later calls await unsettled.
UnreleasedSendPromise == "pending"

\* this.sendPromise = Promise.resolve() on the way out of a failed call.
ReleasedSendPromise == "resolved"

Terminal(c) ==
  calls[c].pc \in {"returned", "threw", "drainThrew", "abandoned"}
Settled(c) == calls[c].pc = "settled"
Completed(c) == Terminal(c) \/ Settled(c)
InProgress(c) ==
  calls[c].pc \notin {"idle", "returned", "threw", "drainThrew", "abandoned",
                      "settled"}

\* No output is being consolidated.
IdleConsolidation == [outputContents |-> <<>>, consolidated |-> <<>>, done |-> FALSE]

\* null in a result field; the exit code of a process ended by a signal.
null == "null"
NullExitCode == 0 - 1

\* No command has been handed to the process executor.
IdleShell ==
  [pc |-> "idle", usePty |-> FALSE,
   command |-> [prints |-> <<>>, exitCode |-> 0, onTerminate |-> "dies"],
   process |-> "none", exit |-> [exitCode |-> NullExitCode, signal |-> null],
   printed |-> <<>>, output |-> <<>>, binaryDetected |-> FALSE,
   aborted |-> FALSE, abortAt |-> "never",
   signals |-> <<>>, graceElapsed |-> FALSE,
   terminateDelivered |-> FALSE, resolutions |-> 0,
   result |-> [exitCode |-> NullExitCode, signal |-> null, output |-> <<>>,
               error |-> null, aborted |-> FALSE]]

\* const runConfig of the planning tool.
runConfig == [max_time_minutes |-> 3, max_turns |-> 8]

\* The variables the planning tool declares in outputConfig.outputs.
outputConfig == [outputs |-> {"execution_plan"}]

\* A function with an empty domain: emitted_vars = {}.
NoVars == [v \in {} |-> ""]

\* const failureMessage in PlanningTool.execute.
failureMessage == "Failed to create a plan."

\* A response without a plan field.
NoPlan == <<>>

\* The ToolResult of execute: the functionResponse's response in llmContent
\* (success, plan or error) and returnDisplay.
ToolResult(success, plan, error, returnDisplay) ==
  [success |-> success, plan |-> plan, error |-> error,
   returnDisplay |-> returnDisplay]

\* execute has not returned.
NoToolResult == ToolResult(FALSE, NoPlan, null, null)

\* No sub-agent has been created and the planning tool has not been called.
IdleAgent ==
  [pc |-> "idle", caller |-> "none", runConfig |-> runConfig,
   outputs |-> {}, turnCounter |-> 0, elapsed |-> 0, toolCalls |-> 0,
   cancelled |-> FALSE, signalAborted |-> FALSE,
   firstTurnToolCall |-> FALSE, engineError |-> FALSE, raised |-> FALSE,
   output |-> [terminate_reason |-> "none", emitted_vars |-> NoVars],
   toolResult |-> NoToolResult]

\* The hook after its first render: nothing typed, nothing requested, the
\* debounce timer of the first render running. A text is the sequence of its
\* characters; requests are the generateContent calls made so far, each with
\* the text it was issued for, its abort signal and whether it has settled.
IdleCompletion ==
  [text |-> <<>>, cursorAtEnd |-> TRUE, timer |-> TRUE,
   isPromptCompletionEnabled |-> TRUE,
   ghostText |-> <<>>, isLoadingGhostText |-> FALSE,
   justSelectedSuggestion |-> FALSE, lastSelectedText |-> <<>>,
   lastRequestedText |-> <<>>, requests |-> <<>>]

\* No history is being curated.
IdleCuration == [comprehensiveHistory |-> <<>>, curatedHistory |-> <<>>,
                 done |-> FALSE]

NonChatInit ==
  /\ consolidation = IdleConsolidation
  /\ shell = IdleShell
  /\ agent = IdleAgent
  /\ curation = IdleCuration
  /\ completion = IdleCompletion

\* The engine was constructed without a history argument: this.history is
\* an array of its own.
NoAliases == [argument |-> FALSE, returned |-> FALSE]

\* The engine after new GeminiChat(config, contentGenerator).
ChatInit ==
  /\ history = <<>>
  /\ sendPromise = "resolved"
  /\ config = [model |-> ProModel, quotaErrorOccurred |-> FALSE,
              fallbackMode |-> FALSE]
  /\ calls = [c \in Calls |-> IdleCall]
  /\ constructed = "ok"
  /\ ctorHistory = <<>>
  /\ returned = [curated |-> FALSE, history |-> <<>>]
  /\ aliases = NoAliases

Init == ChatInit /\ NonChatInit

(* ---------------------------- configuration --------------------------- *)

\* The guard of apiCall: no Flash call right after a quota error.
QuotaGuardThrows ==
  config.quotaErrorOccurred /\ config.model = DEFAULT_GEMINI_FLASH_MODEL

\* The settings the engine's owner moves the configuration between: the
\* session's own model, and Flash in fallback mode after a quota error.
ConfigStates ==
  { [model |-> ProModel, quotaErrorOccurred |-> FALSE, fallbackMode |-> FALSE],
    [model |-> DEFAULT_GEMINI_FLASH_MODEL, quotaErrorOccurred |-> TRUE,
     fallbackMode |-> TRUE] }

ConfigChanges(cfg) ==
  /\ constructed = "ok"
  /\ config # cfg
  /\ config' = cfg
  /\ UNCHANGED <<history, sendPromise, calls, constructed, ctorHistory, returned, aliases, nonChat>>

(* ------------------------------ the calls ----------------------------- *)

\* The caller invokes sendMessage or sendMessageStream; the call runs up to
\* its first statement, await this.sendPromise.
Invoke(c, method, userContent) ==
  /\ constructed = "ok"
  /\ calls[c].pc = "idle"
  /\ \A d \in Calls : d < c => calls[d].pc # "idle"
  /\ calls' = [calls EXCEPT ![c] =
       [@ EXCEPT !.pc = "awaitSendPromise", !.method = method,
                 !.userContent = userContent]]
  /\ UNCHANGED <<history, sendPromise, config,
                 constructed, ctorHistory, returned, aliases, nonChat>>

\* The caller has taken the outcome of call c (the response, the drained
\* stream or the error) and keeps of the calls only whether this last one
\* failed.
Settle(c) ==
  /\ Terminal(c)
  /\ calls' = [d \in Calls |->
       IF d = c
       THEN [IdleCall EXCEPT !.pc = "settled",
                             !.failed = calls[c].pc \in {"threw", "drainThrew"}]
       ELSE IF Settled(d) THEN [calls[d] EXCEPT !.failed = FALSE]
       ELSE calls[d]]
  /\ UNCHANGED <<history, sendPromise, config, constructed, ctorHistory, returned, aliases, nonChat>>

(* ----------------------------- sendMessage ---------------------------- *)

\* errorMessage.includes('maximum schema depth exceeded')
isSchemaDepthError(errorMessage) ==
  errorMessage = "500 maximum schema depth exceeded"

\* Mutant of shouldRetry: the schema-depth check is left out.
shouldRetryBy429Or5xx(errorMessage) ==
  IF Includes429(errorMessage) THEN TRUE
  ELSE IF Matches5xx(errorMessage) THEN TRUE
  ELSE FALSE

\* shouldRetry of sendMessage's retryWithBackoff options.
shouldRetry(errorMessage) ==
  IF isSchemaDepthError(errorMessage) THEN FALSE
  ELSE IF Includes429(errorMessage) THEN TRUE
  ELSE IF Matches5xx(errorMessage) THEN TRUE
  ELSE FALSE

\* const requestContents = this.getHistory(true).concat(userContent)
SendMessageRequestContents(h, userContent) ==
  extractCuratedHistory(h) \o <<userContent>>

\* What generateContent may answer to call c: candidates[0].content (or none)
\* and the automatic-function-calling trace (<<>> when the response has none),
\* which repeats the request and adds the calls the backend made itself.
Responses(c) ==
  [content : { NoContent,
               Content("model", <<TextPart("a")>>, c),
               Content("model", <<ThoughtPart>>, c) },
   automaticFunctionCallingHistory :
     { <<>>,
       calls[c].requestContents
         \o <<Content("model", <<FunctionCallPart>>, c),
              Content("user", <<FunctionResponsePart>>, c)>> }]

\* retryWithBackoff invokes apiCall: the quota guard throws, or the request
\* goes out. The guard's error is not retried and leaves through the catch.
SendMessageApiCall(c, locals) ==
  IF QuotaGuardThrows
  THEN /\ calls' = [calls EXCEPT ![c] =
            Finished(locals, "threw", QuotaGuardMessage)]
       /\ sendPromise' = ReleasedSendPromise
  ELSE /\ calls' = [calls EXCEPT ![c] =
            [locals EXCEPT !.pc = "awaitResponse", !.requests = @ + 1]]
       /\ UNCHANGED sendPromise

\* sendMessage resumes after await this.sendPromise, builds the request and
\* starts retryWithBackoff.
\* AuthType.LOGIN_WITH_GOOGLE and one of the other ways to authenticate.
LOGIN_WITH_GOOGLE == "oauth-personal"
AuthTypes == {LOGIN_WITH_GOOGLE, "gemini-api-key"}

\* Mutant of HistoryAfterConcat: the user turn is pushed onto the history
\* when the request is built, as sendMessageStream does.
HistoryAfterPush(h, userContent) == Append(h, userContent)

\* this.history after this.getHistory(true).concat(userContent): concat
\* builds a new array and leaves the history as it was.
HistoryAfterConcat(h, userContent) == h

SendMessageStart(c) ==
  /\ calls[c].pc = "awaitSendPromise"
  /\ calls[c].method = "sendMessage"
  /\ sendPromise = "resolved"
  /\ SendMessageApiCall(c,
       [calls[c] EXCEPT
          !.historyBefore = history,
          !.requestContents =
             SendMessageRequestContents(history, calls[c].userContent),
          !.attempt = 1])
  /\ history' = HistoryAfterConcat(history, calls[c].userContent)
  /\ UNCHANGED <<config,
                 constructed, ctorHistory, returned, aliases, nonChat>>

\* config.flashFallbackHandler: not set, or a function.
FallbackHandlers == {"undefined", "function"}

\* What a fallback handler does when called: it returns true, nothing, false
\* or null, or it throws.
HandlerOutcomes == {"true", "undefined", "false", "null", "throws"}

\* Mutant of FallbackConsultsHandler: no check that the session already runs
\* on the fallback model.
FallbackConsultsHandlerOnFlash(authType, currentModel, fallbackHandler) ==
  /\ authType = LOGIN_WITH_GOOGLE
  /\ fallbackHandler = "function"

\* handleFlashFallback up to its await: TRUE when it calls the handler, FALSE
\* when it returns null before (no login session, already on the fallback
\* model, no handler).
FallbackConsultsHandler(authType, currentModel, fallbackHandler) ==
  /\ authType = LOGIN_WITH_GOOGLE
  /\ currentModel # DEFAULT_GEMINI_FLASH_MODEL
  /\ fallbackHandler = "function"

\* Mutant of FallbackAccepted: only a truthy answer is an acceptance.
FallbackAcceptedIfTruthy(accepted) == accepted = "true"

\* accepted !== false && accepted !== null
FallbackAccepted(accepted) == accepted \notin {"false", "null"}

\* The retry budget is used up and the error is still a 429.
Persistent429(errorMessage, attempt) ==
  Includes429(errorMessage) /\ attempt >= RetryMaxAttempts

\* generateContent rejects: retried after a delay if shouldRetry and attempts
\* are left; on a persistent 429 onPersistent429 runs handleFlashFallback,
\* which returns null or calls the handler; otherwise the error leaves
\* sendMessage through its catch. The session's authType and its handler are
\* read from the configuration; the call keeps the authType it consulted
\* the handler with.
SendMessageFails(c, errorMessage, authType, fallbackHandler) ==
  /\ calls[c].pc = "awaitResponse"
  /\ IF shouldRetry(errorMessage) /\ calls[c].attempt < RetryMaxAttempts
     THEN /\ calls' = [calls EXCEPT ![c] =
               [@ EXCEPT !.pc = "retryDelay", !.lastError = errorMessage]]
          /\ UNCHANGED sendPromise
     ELSE IF /\ Persistent429(errorMessage, calls[c].attempt)
             /\ FallbackConsultsHandler(authType, config.model,
                                        fallbackHandler)
     THEN /\ calls' = [calls EXCEPT ![c] =
               [@ EXCEPT !.pc = "awaitFallback", !.lastError = errorMessage,
                         !.authType = authType]]
          /\ UNCHANGED sendPromise
     ELSE /\ calls' = [calls EXCEPT ![c] = Finished(@, "threw", errorMessage)]
          /\ sendPromise' = ReleasedSendPromise
  /\ UNCHANGED <<history, config,
                 constructed, ctorHistory, returned, aliases, nonChat>>

\* The fallback handler settles. Accepted: the session moves to the fallback
\* model, handleFlashFallback returns it and the request is tried once more.
\* Declined or thrown: handleFlashFallback returns null and the 429 leaves
\* sendMessage. One call is offered at most one acceptance.
FallbackHandlerSettles(c, outcome) ==
  /\ calls[c].pc = "awaitFallback"
  /\ LET isAccepted == outcome # "throws" /\ FallbackAccepted(outcome)
     IN  /\ calls[c].fellBack => ~isAccepted
         /\ IF isAccepted
            THEN /\ config' = [config EXCEPT
                                 !.model = DEFAULT_GEMINI_FLASH_MODEL,
                                 !.fallbackMode = TRUE]
                 /\ calls' = [calls EXCEPT ![c] =
                      [@ EXCEPT !.pc = "retryDelay", !.accepted = outcome,
                                !.fellBack = TRUE]]
                 /\ UNCHANGED sendPromise
            ELSE /\ calls' = [calls EXCEPT ![c] =
                      [Finished(@, "threw", @.lastError) EXCEPT
                         !.accepted = outcome]]
                 /\ sendPromise' = ReleasedSendPromise
                 /\ UNCHANGED config
  /\ UNCHANGED <<history, constructed, ctorHistory, returned, aliases, nonChat>>

SendMessageRetries(c) ==
  /\ calls[c].pc = "retryDelay"
  /\ SendMessageApiCall(c, [calls[c] EXCEPT !.attempt = @ + 1,
                                            !.accepted = "none"])
  /\ UNCHANGED <<history, config,
                 constructed, ctorHistory, returned, aliases, nonChat>>

\* Mutant of AfcIndex: the length of the comprehensive history.
AfcIndexComprehensive(h) == Len(h)

\* const index = this.getHistory(true).length
AfcIndex(h) == Len(extractCuratedHistory(h))

\* generateContent resolves: the async block assigned to sendPromise records
\* the exchange without suspending, so the promise is settled when it is
\* assigned; sendMessage then returns the response.
SendMessageResponds(c, response) ==
  /\ calls[c].pc = "awaitResponse"
  /\ LET outputContent == response.content
         fullAutomaticFunctionCallingHistory ==
           response.automaticFunctionCallingHistory
         index == AfcIndex(history)
         automaticFunctionCallingHistory ==
           SubSeq(fullAutomaticFunctionCallingHistory, index + 1,
                  Len(fullAutomaticFunctionCallingHistory))
         modelOutput ==
           IF outputContent # NoContent THEN <<outputContent>> ELSE <<>>
     IN  history' = recordHistory(history, calls[c].userContent, modelOutput,
                                  automaticFunctionCallingHistory, c)
  /\ sendPromise' = "resolved"
  /\ calls' = [calls EXCEPT ![c] =
       [Finished(@, "returned", NoError) EXCEPT !.response = response]]
  /\ UNCHANGED <<config,
                 constructed, ctorHistory, returned, aliases, nonChat>>

(* -------------------------- sendMessageStream ------------------------- *)

\* Mutant of PushUserContent: the user turn is not pushed before the attempts.
PushUserContentSkipped(h, userContent) == h

\* this.history.push(userContent), once, before any attempt.
PushUserContent(h, userContent) == Append(h, userContent)

\* isRetryableNetworkError || isContentError in the catch of the retry loop.
isRetryable(errorMessage) ==
  \/ Includes429(errorMessage)
  \/ Matches5xx(errorMessage)
  \/ errorMessage = EmptyStreamError

\* if (this.history[this.history.length - 1] === userContent) this.history.pop()
RollbackUserContent(h, userContent) ==
  IF Len(h) > 0 /\ h[Len(h)] = userContent
  THEN SubSeq(h, 1, Len(h) - 1)
  ELSE h

\* Mutant of CaughtError: the error of the first attempt is kept.
CaughtErrorFirst(locals, errorMessage) ==
  IF locals.attempt = 0 THEN errorMessage ELSE locals.lastError

\* lastError = error at the top of the catch.
CaughtError(locals, errorMessage) == errorMessage

\* The catch of the retry loop for an error raised in the current attempt of
\* call c, whose locals are `locals`, on history h: wait and go round again,
\* or break, clean up and throw.
StreamCatch(c, h, locals, errorMessage) ==
  IF isRetryable(errorMessage) /\ locals.attempt < MAX_RETRIES
  THEN /\ calls' = [calls EXCEPT ![c] =
            [locals EXCEPT !.pc = "backoff",
                           !.lastError = CaughtError(locals, errorMessage)]]
       /\ history' = h
       /\ UNCHANGED sendPromise
  ELSE /\ calls' = [calls EXCEPT ![c] =
            Finished(locals, "threw", CaughtError(locals, errorMessage))]
       /\ history' = RollbackUserContent(h, locals.userContent)
       /\ sendPromise' = ReleasedSendPromise

\* One round of the loop up to its await: makeApiCallAndYieldStream calls
\* apiCall, whose guard throws into the catch, or the request goes out.
StreamAttempt(c, h, locals) ==
  IF QuotaGuardThrows
  THEN StreamCatch(c, h, locals, QuotaGuardMessage)
  ELSE /\ calls' = [calls EXCEPT ![c] =
            [locals EXCEPT !.pc = "awaitStream", !.requests = @ + 1]]
       /\ history' = h
       /\ UNCHANGED sendPromise

\* sendMessageStream resumes after await this.sendPromise, pushes the user
\* turn, builds the request and enters the loop with attempt 0.
SendMessageStreamStart(c) ==
  /\ calls[c].pc = "awaitSendPromise"
  /\ calls[c].method = "sendMessageStream"
  /\ sendPromise = "resolved"
  /\ LET pushed == PushUserContent(history, calls[c].userContent)
     IN  StreamAttempt(c, pushed,
           [calls[c] EXCEPT
              !.historyBefore = history,
              !.requestContents = extractCuratedHistory(pushed),
              !.attempt = 0])
  /\ UNCHANGED <<config,
                 constructed, ctorHistory, returned, aliases, nonChat>>

\* generateContentStream rejects.
StreamRequestFails(c, errorMessage) ==
  /\ calls[c].pc = "awaitStream"
  /\ StreamCatch(c, history, calls[c], errorMessage)
  /\ UNCHANGED <<config,
                 constructed, ctorHistory, returned, aliases, nonChat>>

\* The delay 500 * (attempt + 1) ms has elapsed: continue with attempt + 1.
StreamBackoffElapsed(c) ==
  /\ calls[c].pc = "backoff"
  /\ StreamAttempt(c, history, [calls[c] EXCEPT !.attempt = @ + 1])
  /\ UNCHANGED <<config,
                 constructed, ctorHistory, returned, aliases, nonChat>>

\* generateContentStream resolves: processStreamResponse(streamResponse) makes
\* the generator without running it and sendMessageStream returns it.
StreamReturned(c) ==
  /\ calls[c].pc = "awaitStream"
  /\ calls' = [calls EXCEPT ![c] =
       [@ EXCEPT !.pc = "draining", !.modelResponseParts = <<>>,
                 !.isStreamInvalid = FALSE, !.received = 0,
                 !.arrived = <<>>, !.forwarded = <<>>]]
  /\ UNCHANGED <<history, sendPromise, config,
                 constructed, ctorHistory, returned, aliases, nonChat>>

(* ------------------------ processStreamResponse ----------------------- *)

\* The chunks a stream may carry: candidates[0].content, or none.
Chunks ==
  { Content("model", <<TextPart("a")>>, 0),
    Content("model", <<ThoughtPart>>, 0),
    Content("model", <<TextPart("")>>, 0),
    NoContent }

\* Mutant of YieldChunk: a chunk that fails the validity rule is held back.
YieldValidChunk(forwarded, chunk) ==
  IF isValidResponse(chunk) THEN Append(forwarded, chunk) ELSE forwarded

\* yield chunk: what the consumer of the generator has been handed so far.
YieldChunk(forwarded, chunk) == Append(forwarded, chunk)

\* Mutant of CollectChunk: the parts of a later chunk are put in front.
CollectChunkInFront(locals, chunk) ==
  IF isValidResponse(chunk)
  THEN [locals EXCEPT !.modelResponseParts = chunk.parts \o @]
  ELSE [locals EXCEPT !.isStreamInvalid = TRUE]

\* The body of the for await loop up to the yield: the parts of a valid
\* chunk are collected, an invalid chunk marks the stream.
CollectChunk(locals, chunk) ==
  IF isValidResponse(chunk)
  THEN [locals EXCEPT !.modelResponseParts = @ \o chunk.parts]
  ELSE [locals EXCEPT !.isStreamInvalid = TRUE]

\* The caller pulls the next chunk and the stream has one: `arrived` is what
\* the underlying stream has produced, `forwarded` what the caller received.
DrainChunk(c, chunk) ==
  /\ calls[c].pc = "draining"
  /\ calls[c].received < MaxChunks
  /\ calls' = [calls EXCEPT ![c] =
       [CollectChunk(@, chunk) EXCEPT
          !.received = @ + 1,
          !.arrived = Append(@, chunk),
          !.forwarded = YieldChunk(@, chunk)]]
  /\ UNCHANGED <<history, sendPromise, config,
                 constructed, ctorHistory, returned, aliases, nonChat>>

\* The caller pulls and the stream is finished: the generator throws
\* EmptyStreamError to the caller, or pushes the model turn and completes.
DrainEnd(c) ==
  /\ calls[c].pc = "draining"
  /\ IF calls[c].isStreamInvalid
     THEN /\ calls' = [calls EXCEPT ![c] =
               Finished(@, "drainThrew", EmptyStreamError)]
          /\ UNCHANGED history
     ELSE /\ calls' = [calls EXCEPT ![c] = Finished(@, "returned", NoError)]
          /\ history' = Append(history,
               Content("model", calls[c].modelResponseParts, c))
  /\ UNCHANGED <<sendPromise, config,
                 constructed, ctorHistory, returned, aliases, nonChat>>

\* The caller stops pulling and closes the generator (a break out of its
\* for await loop): the generator ends at its yield and the code after the
\* loop does not run.
AbandonStream(c) ==
  /\ calls[c].pc = "draining"
  /\ calls' = [calls EXCEPT ![c] = Finished(@, "abandoned", NoError)]
  /\ UNCHANGED <<history, sendPromise, config,
                 constructed, ctorHistory, returned, aliases, nonChat>>

\* The caller pulls and the underlying stream raises: the error passes
\* through the generator to the caller.
DrainThrows(c, errorMessage) ==
  /\ calls[c].pc = "draining"
  /\ calls' = [calls EXCEPT ![c] = Finished(@, "drainThrew", errorMessage)]
  /\ UNCHANGED <<history, sendPromise, config,
                 constructed, ctorHistory, returned, aliases, nonChat>>

(* ------------------------ constructor, getHistory --------------------- *)

\* Turns a caller may hand to the constructor.
InputTurns ==
  { Content(role, parts, 0) :
      role \in {"user", "model", "system"},
      parts \in {<<TextPart("a")>>, <<>>} }

RECURSIVE SeqsUpTo(_, _)
SeqsUpTo(S, n) ==
  IF n = 0 THEN {<<>>}
  ELSE LET shorter == SeqsUpTo(S, n - 1)
       IN  shorter \cup { Append(q, x) : q \in { r \in shorter : Len(r) = n - 1 },
                                         x \in S }

HistoryInputs == SeqsUpTo(InputTurns, MaxHist)

\* new GeminiChat(config, contentGenerator, generationConfig, history): the
\* parameter property keeps the array it was handed.
Construct ==
  /\ constructed = "no"
  /\ IF validateHistory(ctorHistory)
     THEN /\ constructed' = "ok"
          /\ history' = ctorHistory
          /\ aliases' = [aliases EXCEPT !.argument = TRUE]
     ELSE /\ constructed' = "error"
          /\ UNCHANGED <<history, aliases>>
  /\ UNCHANGED <<sendPromise, config, calls,
                 ctorHistory, returned, nonChat>>

\* Mutant of getHistoryShares: the comprehensive history is returned as it
\* is, without structuredClone.
getHistoryUncloned(curated) == ~curated

\* Whether the array getHistory returns is this.history itself:
\* structuredClone makes a new array of new turns.
getHistoryShares(curated) == FALSE

getHistory(curated) ==
  /\ constructed = "ok"
  /\ returned' = [curated |-> curated,
                  history |-> IF curated THEN extractCuratedHistory(history)
                                         ELSE history]
  /\ aliases' = [aliases EXCEPT !.returned = getHistoryShares(curated)]
  /\ UNCHANGED <<history, sendPromise, config, calls,
                 constructed, ctorHistory, nonChat>>

\* Arrays a caller hands to setHistory: at most one turn, its role user or
\* model (extractCuratedHistory does not terminate on another role).
SetHistoryInputs ==
  {<<>>} \cup { <<turn>> : turn \in { t \in InputTurns : t.role \in {"user", "model"} } }

\* setHistory(history): this.history = history, the array it was handed.
setHistory(h) ==
  /\ constructed = "ok"
  /\ history' = h
  /\ ctorHistory' = h
  /\ aliases' = [argument |-> TRUE, returned |-> FALSE]
  /\ UNCHANGED <<sendPromise, config, calls, constructed, returned, nonChat>>

\* What a caller does to an array it holds: array.pop(), or emptying the
\* parts of its first turn.
Mutations == {"pop", "clearParts"}

MutateArray(array, mutation) ==
  IF Len(array) = 0 THEN array
  ELSE IF mutation = "pop" THEN SubSeq(array, 1, Len(array) - 1)
  ELSE [array EXCEPT ![1].parts = <<>>]

\* The caller mutates the array getHistory returned to it; what it does
\* reaches every name of the same array.
CallerMutatesReturned(mutation) ==
  /\ constructed = "ok"
  /\ MutateArray(returned.history, mutation) # returned.history
  /\ returned' = [returned EXCEPT !.history = MutateArray(@, mutation)]
  /\ history' = IF aliases.returned
                THEN MutateArray(history, mutation) ELSE history
  /\ ctorHistory' = IF aliases.returned /\ aliases.argument
                    THEN MutateArray(ctorHistory, mutation) ELSE ctorHistory
  /\ UNCHANGED <<sendPromise, config, calls, constructed, aliases, nonChat>>

\* The caller mutates the array it handed to the constructor or to
\* setHistory.
CallerMutatesArgument(mutation) ==
  /\ constructed = "ok"
  /\ MutateArray(ctorHistory, mutation) # ctorHistory
  /\ ctorHistory' = MutateArray(ctorHistory, mutation)
  /\ history' = IF aliases.argument
                THEN MutateArray(history, mutation) ELSE history
  /\ returned' = IF aliases.argument /\ aliases.returned
                 THEN [returned EXCEPT !.history = MutateArray(@, mutation)]
                 ELSE returned
  /\ UNCHANGED <<sendPromise, config, calls, constructed, aliases, nonChat>>

(* --------------------------- specifications --------------------------- *)

\* A caller that issues its calls without waiting for the earlier ones, at
\* most two of them unfinished at a time.
InvokeAny(c) ==
  /\ \A d \in Calls : d + 1 < c => Settled(d)
  /\ \E method \in {"sendMessage", "sendMessageStream"} :
       \E userContent \in UserMessages(c, method) : Invoke(c, method, userContent)

\* A caller that issues a call only after the earlier exchanges have completed.
InvokeInTurn(c) ==
  /\ \A d \in Calls : d < c => Settled(d)
  /\ \E method \in {"sendMessage", "sendMessageStream"} :
       \E userContent \in UserMessages(c, method) : Invoke(c, method, userContent)

\* The steps of the calls of a session whose configuration has no fallback
\* handler.
Step(c) ==
  \/ SendMessageStart(c)
  \/ \E errorMessage \in ApiErrors :
       SendMessageFails(c, errorMessage, LOGIN_WITH_GOOGLE, "undefined")
  \/ SendMessageRetries(c)
  \/ \E response \in Responses(c) : SendMessageResponds(c, response)
  \/ SendMessageStreamStart(c)
  \/ \E errorMessage \in StreamApiErrors : StreamRequestFails(c, errorMessage)
  \/ StreamBackoffElapsed(c)
  \/ StreamReturned(c)
  \/ \E chunk \in Chunks : DrainChunk(c, chunk)
  \/ DrainEnd(c)
  \/ \E errorMessage \in StreamApiErrors : DrainThrows(c, errorMessage)
  \/ Settle(c)

Next ==
  \/ \E c \in Calls : InvokeAny(c)
  \/ \E c \in Calls : Step(c)
  \/ \E cfg \in ConfigStates : ConfigChanges(cfg)

Spec == Init /\ [][Next]_vars

NextInTurn ==
  \/ \E c \in Calls : InvokeInTurn(c)
  \/ \E c \in Calls : Step(c)
  \/ \E cfg \in ConfigStates : ConfigChanges(cfg)

SpecInTurn == Init /\ [][NextInTurn]_vars

\* A caller that uses sendMessage alone, one exchange after the other, on a
\* session whose configuration may have a fallback handler.
InvokeSendMessage(c) ==
  /\ \A d \in Calls : d < c => Settled(d)
  /\ \E userContent \in UserMessages(c, "sendMessage") :
       Invoke(c, "sendMessage", userContent)

StepFallback(c) ==
  \/ SendMessageStart(c)
  \/ \E errorMessage \in ApiErrors : \E authType \in AuthTypes :
       \E fallbackHandler \in FallbackHandlers :
         SendMessageFails(c, errorMessage, authType, fallbackHandler)
  \/ \E outcome \in HandlerOutcomes : FallbackHandlerSettles(c, outcome)
  \/ SendMessageRetries(c)
  \/ \E response \in Responses(c) : SendMessageResponds(c, response)
  \/ Settle(c)

NextFallback ==
  \/ \E c \in Calls : InvokeSendMessage(c)
  \/ \E c \in Calls : StepFallback(c)
  \/ \E cfg \in ConfigStates : ConfigChanges(cfg)

SpecFallback == Init /\ [][NextFallback]_vars

InitHistory ==
  /\ ctorHistory \in HistoryInputs
  /\ constructed = "no"
  /\ history = <<>>
  /\ sendPromise = "resolved"
  /\ config = [model |-> ProModel, quotaErrorOccurred |-> FALSE,
              fallbackMode |-> FALSE]
  /\ calls = [c \in Calls |-> IdleCall]
  /\ returned = [curated |-> FALSE, history |-> <<>>]
  /\ aliases = NoAliases
  /\ NonChatInit

NextHistory ==
  \/ Construct
  \/ \E curated \in BOOLEAN : getHistory(curated)
  \/ \E h \in SetHistoryInputs : setHistory(h)
  \/ \E mutation \in Mutations : CallerMutatesReturned(mutation)
  \/ \E mutation \in Mutations : CallerMutatesArgument(mutation)

SpecHistory == InitHistory /\ [][NextHistory]_vars

\* A caller that streams every exchange and issues it after the earlier
\* exchanges have completed.
InvokeStream(c) ==
  /\ \A d \in Calls : d < c => Settled(d)
  /\ \E userContent \in UserMessages(c, "sendMessageStream") :
       Invoke(c, "sendMessageStream", userContent)

\* The steps of the sendMessageStream calls.
StepStream(c) ==
  \/ SendMessageStreamStart(c)
  \/ \E errorMessage \in StreamApiErrors : StreamRequestFails(c, errorMessage)
  \/ StreamBackoffElapsed(c)
  \/ StreamReturned(c)
  \/ \E chunk \in Chunks : DrainChunk(c, chunk)
  \/ DrainEnd(c)
  \/ \E errorMessage \in StreamApiErrors : DrainThrows(c, errorMessage)
  \/ AbandonStream(c)
  \/ Settle(c)

NextStream ==
  \/ \E c \in Calls : InvokeStream(c)
  \/ \E c \in Calls : StepStream(c)
  \/ \E cfg \in ConfigStates : ConfigChanges(cfg)

SpecStream == Init /\ [][NextStream]_vars

(* ------------------- consolidation in recordHistory ------------------- *)

\* Parts of a model content that is not a thought.
OutputParts == {TextPart("a"), TextPart("b"), FunctionCallPart}

\* Model contents of one or two parts.
OutputContents ==
  { Content("model", parts, 0) :
      parts \in { <<p>> : p \in OutputParts }
                  \cup { <<p, q>> : p \in OutputParts, q \in OutputParts } }

\* modelOutput: Content[] as recordHistory's signature admits it.
ModelOutputs == SeqsUpTo(OutputContents, MaxOutputs)

\* recordHistory is handed an output.
InitConsolidation ==
  /\ ChatInit
  /\ consolidation \in [outputContents : ModelOutputs,
                         consolidated : {<<>>}, done : {FALSE}]
  /\ shell = IdleShell
  /\ agent = IdleAgent
  /\ curation = IdleCuration
  /\ completion = IdleCompletion

\* The loop "Consolidate adjacent model roles in outputContents".
Consolidate ==
  /\ ~consolidation.done
  /\ consolidation' =
       [consolidation EXCEPT
          !.consolidated = ConsolidateFrom(consolidation.outputContents, 1, <<>>),
          !.done = TRUE]
  /\ UNCHANGED <<chat, shell, agent, curation, completion>>

SpecConsolidation == InitConsolidation /\ [][Consolidate]_vars

(* ------------------------ extractCuratedHistory ----------------------- *)

\* Parts of the turns of a comprehensive history: text, no part, an empty
\* text, a part without keys, a thought with an empty text, and a text
\* followed by an empty text.
CuratedParts ==
  { <<TextPart("a")>>, <<>>, <<TextPart("")>>, <<EmptyPart>>,
    <<[ThoughtPart EXCEPT !.text = ""]>>, <<TextPart("a"), TextPart("")>> }

\* Turns of a history that passed validateHistory.
CuratedTurns ==
  { Content(role, parts, 0) : role \in {"user", "model"}, parts \in CuratedParts }

\* extractCuratedHistory is handed a comprehensive history.
InitCuration ==
  /\ ChatInit
  /\ consolidation = IdleConsolidation
  /\ shell = IdleShell
  /\ agent = IdleAgent
  /\ completion = IdleCompletion
  /\ curation \in [comprehensiveHistory : SeqsUpTo(CuratedTurns, MaxHist),
                    curatedHistory : {<<>>}, done : {FALSE}]

\* extractCuratedHistory(comprehensiveHistory) returns.
Curate ==
  /\ ~curation.done
  /\ curation' =
       [curation EXCEPT
          !.curatedHistory = extractCuratedHistory(curation.comprehensiveHistory),
          !.done = TRUE]
  /\ UNCHANGED <<chat, consolidation, shell, agent, completion>>

SpecCuration == InitCuration /\ [][Curate]_vars

(* -------------------------- usePromptCompletion ------------------------ *)

PROMPT_COMPLETION_MIN_LENGTH == 5

\* The number of generateContent calls of one session of the hook.
MaxRequests == 3

\* String.prototype.trim, startsWith and includes.
RECURSIVE TrimStart(_)
TrimStart(t) ==
  IF t # <<>> /\ Head(t) = " " THEN TrimStart(Tail(t)) ELSE t

RECURSIVE TrimEnd(_)
TrimEnd(t) ==
  IF t # <<>> /\ t[Len(t)] = " " THEN TrimEnd(SubSeq(t, 1, Len(t) - 1)) ELSE t

Trim(t) == TrimEnd(TrimStart(t))

StartsWith(t, prefix) ==
  Len(prefix) <= Len(t) /\ SubSeq(t, 1, Len(prefix)) = prefix

Includes(t, ch) == \E k \in 1..Len(t) : t[k] = ch

\* What the user types into the buffer: nothing, a prompt, the prompt with a
\* trailing blank, a longer prompt, a slash command, a text with an @.
TypedTexts ==
  { <<>>,
    <<"a", "b", "c", "d", "e">>,
    <<"a", "b", "c", "d", "e", " ">>,
    <<"a", "b", "c", "d", "e", "f">>,
    <<"/", "a", "b", "c", "d">>,
    <<"a", "b", "c", "@", "e">> }

\* getResponseText(response): no text, or the text of the model's answer (a
\* completion of both prompts with blanks around it, a completion of the
\* shorter prompt alone, a text that completes neither, blanks).
NoResponseText == <<"null">>
ResponseTexts ==
  { NoResponseText,
    <<" ", "a", "b", "c", "d", "e", "f", "g", " ">>,
    <<"a", "b", "c", "d", "e", "x">>,
    <<"x", "b", "c", "d", "e", "f">>,
    <<" ">> }

\* The name of the error generateContent rejects with.
ErrorNames == {"AbortError", "Error"}

clearGhostText(hook) ==
  [hook EXCEPT !.ghostText = <<>>, !.isLoadingGhostText = FALSE]

\* Mutant of AbortInFlight: the request in flight is left running.
AbortInFlightSkipped(hook) == hook

\* if (abortControllerRef.current) abortControllerRef.current.abort(): the
\* ref holds the controller of the last request made.
AbortInFlight(hook) ==
  IF hook.requests = <<>> THEN hook
  ELSE [hook EXCEPT !.requests[Len(hook.requests)].aborted = TRUE]

\* The conditions under which no suggestion is asked for. The client
\* (config.getGeminiClient()) is present.
NotCompletable(hook, trimmedText) ==
  \/ Len(trimmedText) < PROMPT_COMPLETION_MIN_LENGTH
  \/ StartsWith(trimmedText, <<"/">>)
  \/ Includes(trimmedText, "@")
  \/ ~hook.isPromptCompletionEnabled

\* generatePromptSuggestions up to its await.
generatePromptSuggestions(hook) ==
  LET trimmedText == Trim(hook.text)
  IN  IF trimmedText = hook.lastRequestedText THEN hook
      ELSE IF NotCompletable(hook, trimmedText)
      THEN [clearGhostText(AbortInFlight(hook)) EXCEPT
              !.lastRequestedText = <<>>]
      ELSE [AbortInFlight(hook) EXCEPT
              !.lastRequestedText = trimmedText,
              !.isLoadingGhostText = TRUE,
              !.requests = Append(@, [trimmedText |-> trimmedText,
                                      aborted |-> FALSE,
                                      status |-> "inFlight"])]

handlePromptCompletion(hook) ==
  LET trimmedText == Trim(hook.text)
  IN  IF ~hook.cursorAtEnd THEN clearGhostText(hook)
      ELSE IF hook.justSelectedSuggestion
              /\ trimmedText = hook.lastSelectedText
      THEN hook
      ELSE IF trimmedText # hook.lastSelectedText
      THEN generatePromptSuggestions(
             [hook EXCEPT !.justSelectedSuggestion = FALSE,
                          !.lastSelectedText = <<>>])
      ELSE generatePromptSuggestions(hook)

\* generatePromptSuggestions after generateContent has resolved for request
\* r: the rest of the try block and the finally block.
OnResponse(hook, r, responseText) ==
  LET request == hook.requests[r]
      settled == [hook EXCEPT !.requests[r].status = "settled"]
      suggestionText == Trim(responseText)
  IN  IF request.aborted THEN settled
      ELSE [(IF responseText = NoResponseText THEN settled
             ELSE IF Len(suggestionText) > 0
                     /\ StartsWith(suggestionText, request.trimmedText)
             THEN [settled EXCEPT !.ghostText = suggestionText]
             ELSE clearGhostText(settled))
            EXCEPT !.isLoadingGhostText = FALSE]

\* generatePromptSuggestions after generateContent has rejected for request
\* r: the catch block and the finally block.
OnRejection(hook, r, errorName) ==
  LET request == hook.requests[r]
      settled == [hook EXCEPT !.requests[r].status = "settled"]
      caught == clearGhostText(
                  IF ~(request.aborted \/ errorName = "AbortError")
                  THEN [settled EXCEPT !.lastRequestedText = <<>>]
                  ELSE settled)
  IN  IF request.aborted THEN caught
      ELSE [caught EXCEPT !.isLoadingGhostText = FALSE]

\* The condition under which the ghost text validation effect clears.
GhostTextInvalid(hook) ==
  /\ hook.ghostText # <<>>
  /\ \/ ~hook.cursorAtEnd
     \/ /\ Len(Trim(hook.text)) > 0
        /\ ~StartsWith(hook.ghostText, Trim(hook.text))

InitCompletion ==
  /\ ChatInit
  /\ consolidation = IdleConsolidation
  /\ shell = IdleShell
  /\ agent = IdleAgent
  /\ curation = IdleCuration
  /\ \E enabled \in BOOLEAN :
       completion = [IdleCompletion EXCEPT
                       !.isPromptCompletionEnabled = enabled]

\* The ghost text validation effect, run after a render that changed the
\* text, the cursor or the ghost text; the user's events and the timer wait
\* for it.
ValidateGhostText ==
  /\ GhostTextInvalid(completion)
  /\ completion' = clearGhostText(completion)
  /\ UNCHANGED <<chat, consolidation, shell, agent, curation>>

\* The user edits the buffer: the debounce timer starts again.
TextChanges(text) ==
  /\ ~GhostTextInvalid(completion)
  /\ text # completion.text
  /\ completion' = [completion EXCEPT !.text = text, !.timer = TRUE]
  /\ UNCHANGED <<chat, consolidation, shell, agent, curation>>

\* The user moves the cursor to or away from the end of the buffer.
CursorMoves ==
  /\ ~GhostTextInvalid(completion)
  /\ completion' = [completion EXCEPT !.cursorAtEnd = ~@, !.timer = TRUE]
  /\ UNCHANGED <<chat, consolidation, shell, agent, curation>>

\* The debounce timer fires: handlePromptCompletion runs.
DebounceFires ==
  /\ ~GhostTextInvalid(completion)
  /\ completion.timer
  /\ Len(handlePromptCompletion(completion).requests) <= MaxRequests
  /\ completion' = [handlePromptCompletion(completion) EXCEPT
                      !.timer = FALSE]
  /\ UNCHANGED <<chat, consolidation, shell, agent, curation>>

\* generateContent resolves for a request in flight.
ResponseArrives(r, responseText) ==
  /\ r \in 1..Len(completion.requests)
  /\ completion.requests[r].status = "inFlight"
  /\ completion' = OnResponse(completion, r, responseText)
  /\ UNCHANGED <<chat, consolidation, shell, agent, curation>>

\* generateContent rejects for a request in flight.
RequestRejects(r, errorName) ==
  /\ r \in 1..Len(completion.requests)
  /\ completion.requests[r].status = "inFlight"
  /\ completion' = OnRejection(completion, r, errorName)
  /\ UNCHANGED <<chat, consolidation, shell, agent, curation>>

\* accept: the ghost text becomes the buffer's text; where the buffer puts
\* the cursor is the buffer's business.
AcceptGhostText ==
  /\ ~GhostTextInvalid(completion)
  /\ completion.ghostText # <<>>
  /\ Len(completion.ghostText) > Len(completion.text)
  /\ \E atEnd \in BOOLEAN :
       completion' = [completion EXCEPT
                        !.text = completion.ghostText,
                        !.cursorAtEnd = atEnd,
                        !.timer = TRUE,
                        !.ghostText = <<>>,
                        !.justSelectedSuggestion = TRUE,
                        !.lastSelectedText = completion.ghostText]
  /\ UNCHANGED <<chat, consolidation, shell, agent, curation>>

\* clear, called by the component that shows the ghost text.
ClearGhostText ==
  /\ ~GhostTextInvalid(completion)
  /\ completion' = clearGhostText(completion)
  /\ UNCHANGED <<chat, consolidation, shell, agent, curation>>

NextCompletion ==
  \/ ValidateGhostText
  \/ \E text \in TypedTexts : TextChanges(text)
  \/ CursorMoves
  \/ DebounceFires
  \/ \E r \in 1..MaxRequests : \E responseText \in ResponseTexts :
       ResponseArrives(r, responseText)
  \/ \E r \in 1..MaxRequests : \E errorName \in ErrorNames :
       RequestRejects(r, errorName)
  \/ AcceptGhostText
  \/ ClearGhostText

SpecCompletion == InitCompletion /\ [][NextCompletion]_vars

(* -------------------------- process executor -------------------------- *)

\* What a command prints: text, or data the executor detects as binary.
PrintedChunks == {"hello", "binary"}

\* A command as the executor can observe it: what it prints, the code it
\* exits with when left alone, and what a termination request does to it:
\* it dies of the signal, exits on its own with its code, or ignores it.
Commands ==
  [prints : SeqsUpTo(PrintedChunks, MaxPrints),
   exitCode : {0, 1},
   onTerminate : {"dies", "exits", "ignores"}]

\* Mutant of ResultAborted: aborted only when a signal ended the process.
ResultAbortedIfSignalled(sh) == sh.exit.signal # null

\* Mutant of ResultAborted: aborted only when the request reached the process.
ResultAbortedIfDelivered(sh) == sh.terminateDelivered

\* result.aborted: whether cancellation was requested by the time of reaping.
ResultAborted(sh) == sh.aborted

\* Mutant of Escalates: the forceful kill follows every termination request.
EscalatesAlways(sh) == TRUE

\* The forceful kill is sent if the process has not exited in time.
Escalates(sh) == sh.process = "running"

\* Mutant of PtyEcho: the PTY backend drops what the terminal hands over.
PtyEchoOnly(output, chunk) == <<"echo">>

\* What the PTY backend aggregates for a chunk: the terminal's echo and
\* formatting come ahead of the text itself.
PtyEcho(output, chunk) == output \o <<"echo", chunk>>

\* The aggregated output after a chunk has arrived: once binary data has
\* been detected no further text is decoded.
Aggregate(sh, chunk) ==
  IF sh.binaryDetected \/ chunk = "binary" THEN sh.output
  ELSE IF sh.usePty THEN PtyEcho(sh.output, chunk)
  ELSE Append(sh.output, chunk)

\* ShellExecutionService.execute(command, cwd, onOutputEvent, signal, usePty)
\* spawns the command and hands back the handle.
Execute(command, usePty) ==
  /\ shell.pc = "idle"
  /\ shell' = [shell EXCEPT !.pc = "running", !.usePty = usePty,
                            !.command = command, !.process = "running"]
  /\ UNCHANGED <<chat, consolidation, agent, curation, completion>>

\* The command could not be spawned at all: the result carries the error.
ExecuteFails(usePty) ==
  /\ shell.pc = "idle"
  /\ shell' = [shell EXCEPT
       !.pc = "resolved", !.usePty = usePty, !.resolutions = @ + 1,
       !.result = [exitCode |-> NullExitCode, signal |-> null,
                   output |-> <<>>, error |-> "spawn failed",
                   aborted |-> shell.aborted]]
  /\ UNCHANGED <<chat, consolidation, agent, curation, completion>>

\* The process prints its next chunk and the executor's monitor reads it.
ProcessPrints ==
  /\ shell.process = "running"
  /\ Len(shell.printed) < Len(shell.command.prints)
  /\ LET chunk == shell.command.prints[Len(shell.printed) + 1]
     IN shell' = [shell EXCEPT
          !.printed = Append(@, chunk),
          !.output = Aggregate(shell, chunk),
          !.binaryDetected = @ \/ chunk = "binary"]
  /\ UNCHANGED <<chat, consolidation, agent, curation, completion>>

\* The process comes to its end on its own.
ProcessExits ==
  /\ shell.process = "running"
  /\ Len(shell.printed) = Len(shell.command.prints)
  /\ shell' = [shell EXCEPT
       !.process = "exited",
       !.exit = [exitCode |-> shell.command.exitCode, signal |-> null]]
  /\ UNCHANGED <<chat, consolidation, agent, curation, completion>>

\* abortController.abort(): the cancel signal fires; while the result is
\* outstanding the executor requests termination of the process group.
Abort ==
  /\ shell.pc # "idle"
  /\ ~shell.aborted
  /\ shell' = [shell EXCEPT
       !.aborted = TRUE,
       !.abortAt = shell.process,
       !.signals = IF shell.pc = "running" THEN Append(@, "SIGTERM") ELSE @]
  /\ UNCHANGED <<chat, consolidation, agent, curation, completion>>

\* The termination request reaches the running process.
TerminateDelivered ==
  /\ shell.process = "running"
  /\ shell.signals # <<>>
  /\ ~shell.terminateDelivered
  /\ shell' = [shell EXCEPT
       !.terminateDelivered = TRUE,
       !.process = IF shell.command.onTerminate = "ignores" THEN @
                   ELSE "exited",
       !.exit = CASE shell.command.onTerminate = "dies" ->
                       [exitCode |-> NullExitCode, signal |-> "SIGTERM"]
                  [] shell.command.onTerminate = "exits" ->
                       [exitCode |-> shell.command.exitCode, signal |-> null]
                  [] OTHER -> @]
  /\ UNCHANGED <<chat, consolidation, agent, curation, completion>>

\* The grace period after the termination request runs out.
GraceElapses ==
  /\ shell.signals # <<>>
  /\ ~shell.graceElapsed
  /\ shell' = [shell EXCEPT
       !.graceElapsed = TRUE,
       !.signals = IF Escalates(shell) THEN Append(@, "SIGKILL") ELSE @]
  /\ UNCHANGED <<chat, consolidation, agent, curation, completion>>

\* The forceful kill reaches the running process.
KillDelivered ==
  /\ shell.process = "running"
  /\ Len(shell.signals) = 2
  /\ shell' = [shell EXCEPT
       !.process = "exited",
       !.exit = [exitCode |-> NullExitCode, signal |-> "SIGKILL"]]
  /\ UNCHANGED <<chat, consolidation, agent, curation, completion>>

\* The executor reaps the exited process and resolves handle.result.
Reap ==
  /\ shell.process = "exited"
  /\ shell' = [shell EXCEPT
       !.process = "reaped", !.pc = "resolved", !.resolutions = @ + 1,
       !.result = [exitCode |-> shell.exit.exitCode,
                   signal |-> shell.exit.signal,
                   output |-> shell.output, error |-> null,
                   aborted |-> ResultAborted(shell)]]
  /\ UNCHANGED <<chat, consolidation, agent, curation, completion>>

NextShell ==
  \/ \E command \in Commands, usePty \in BOOLEAN : Execute(command, usePty)
  \/ \E usePty \in BOOLEAN : ExecuteFails(usePty)
  \/ ProcessPrints
  \/ ProcessExits
  \/ Abort
  \/ TerminateDelivered
  \/ GraceElapses
  \/ KillDelivered
  \/ Reap

SpecShell == Init /\ [][NextShell]_vars

\* The operating system delivers signals and exit notifications, and the
\* grace timer fires.
SpecShellLive ==
  /\ SpecShell
  /\ WF_vars(TerminateDelivered)
  /\ WF_vars(GraceElapses)
  /\ WF_vars(KillDelivered)
  /\ WF_vars(Reap)

(* ------------------------ sub-agent, planning tool -------------------- *)

\* SubagentTerminateMode, and the reason of a run that has not ended.
TerminateModes == {"GOAL", "MAX_TURNS", "TIMEOUT", "ERROR", "ABORTED"}

\* Budgets of the runs other callers than the planning tool start.
RunConfigs == [max_time_minutes : 1..MaxMinutes, max_turns : 1..MaxTurns]

\* Output declarations of the runs other callers start.
OutputConfigs == { [outputs |-> {}], outputConfig,
                   [outputs |-> {"execution_plan", "summary"}] }

\* Values a model emits for a variable: nothing, JSON, text that is no JSON.
EmittedValues == {"", "[1]", "[ 1 ]", "not a valid json"}

\* JSON.parse(plan) returns rather than throws.
ParsesAsJson(plan) == plan \in {"[1]", "[ 1 ]"}

\* JSON.parse(plan): the value the text denotes.
JsonParse(plan) == <<1>>

\* JSON.stringify(parsedPlan, null, 2)
JsonStringify(parsedPlan) == "[\n  1\n]"

\* Mutant of ExecuteResult: a plan that does not parse fails the call with
\* the failure message.
ExecuteResultStrict(plan) ==
  IF plan = null \/ ~ParsesAsJson(plan)
  THEN ToolResult(FALSE, NoPlan, failureMessage, failureMessage)
  ELSE ToolResult(TRUE, JsonParse(plan), null, JsonStringify(JsonParse(plan)))

\* Mutant of ExecuteResult: any plan that is not null is a success.
ExecuteResultLenient(plan) ==
  IF plan = null
  THEN ToolResult(FALSE, NoPlan, failureMessage, failureMessage)
  ELSE IF ParsesAsJson(plan)
  THEN ToolResult(TRUE, JsonParse(plan), null, JsonStringify(JsonParse(plan)))
  ELSE ToolResult(TRUE, NoPlan, null, plan)

\* What execute returns for the plan createPlan handed it: the failure for
\* no plan, the parsed plan and its formatted text for JSON, the raw text
\* and 'Invalid JSON response' otherwise.
ExecuteResult(plan) ==
  IF plan = null
  THEN ToolResult(FALSE, NoPlan, failureMessage, failureMessage)
  ELSE IF ParsesAsJson(plan)
  THEN ToolResult(TRUE, JsonParse(plan), null, JsonStringify(JsonParse(plan)))
  ELSE ToolResult(FALSE, NoPlan, "Invalid JSON response", plan)

\* The structured outputs a final response can carry for the declared
\* variables: a value for some of them, for none, or for all.
StructuredOutputs(outputs) ==
  UNION { [vs -> EmittedValues] : vs \in SUBSET outputs }

\* emitted_vars after the variables of a structured output were taken over.
Emit(emitted_vars, structured) ==
  [v \in DOMAIN emitted_vars \cup DOMAIN structured |->
     IF v \in DOMAIN structured THEN structured[v] ELSE emitted_vars[v]]

\* Mutant of TurnBudgetSpent: one turn more than max_turns.
TurnBudgetSpentLate(a) == a.turnCounter > a.runConfig.max_turns

\* turn count >= runConfig.max_turns
TurnBudgetSpent(a) == a.turnCounter >= a.runConfig.max_turns

\* elapsed wall-clock time >= runConfig.max_time_minutes
TimeBudgetSpent(a) == a.elapsed >= a.runConfig.max_time_minutes

\* Mutant of Raises: an engine error leaves runNonInteractive as an exception.
RaisesOnError(reason) == reason = "ERROR"

\* Whether runNonInteractive raises when it ends with the reason.
Raises(reason) == FALSE

\* Mutant of GoalMet: one emitted variable is enough.
GoalMetByAny(outputs, emitted_vars) ==
  outputs = {} \/ outputs \cap DOMAIN emitted_vars # {}

\* The model has emitted every variable declared in outputConfig.outputs.
GoalMet(outputs, emitted_vars) == outputs \subseteq DOMAIN emitted_vars

\* The run ends with the reason.
Terminate(a, reason) ==
  [a EXCEPT !.pc = "done", !.output.terminate_reason = reason,
            !.raised = Raises(reason)]

\* planningTool.execute(params, signal): createPlan creates the sub-agent
\* with the tool's configuration and runs it; the signal is not handed on.
PlanningToolExecute ==
  /\ agent.pc = "idle"
  /\ agent' = [agent EXCEPT !.pc = "top", !.caller = "planning_tool",
                            !.runConfig = runConfig,
                            !.outputs = outputConfig.outputs]
  /\ UNCHANGED <<chat, consolidation, shell, curation, completion>>

\* SubAgentScope.create rejects: createPlan catches and returns null, and
\* execute returns the failure message.
PlanningToolCreateFails ==
  /\ agent.pc = "idle"
  /\ agent' = [agent EXCEPT !.pc = "returned", !.caller = "planning_tool",
                            !.raised = TRUE,
                            !.toolResult = ExecuteResult(null)]
  /\ UNCHANGED <<chat, consolidation, shell, curation, completion>>

\* Another caller creates a sub-agent and runs it, with a cancel signal it
\* may fire.
RunNonInteractive(rc, oc) ==
  /\ agent.pc = "idle"
  /\ agent' = [agent EXCEPT !.pc = "top", !.caller = "direct",
                            !.runConfig = rc, !.outputs = oc.outputs]
  /\ UNCHANGED <<chat, consolidation, shell, curation, completion>>

\* The top of the per-turn loop: cancellation, then the time budget, then
\* the turn budget; a turn starts if none of them stops the run.
LoopTop ==
  /\ agent.pc = "top"
  /\ agent' =
       IF agent.cancelled THEN Terminate(agent, "ABORTED")
       ELSE IF TimeBudgetSpent(agent) THEN Terminate(agent, "TIMEOUT")
       ELSE IF TurnBudgetSpent(agent) THEN Terminate(agent, "MAX_TURNS")
       ELSE [agent EXCEPT !.pc = "inTurn", !.turnCounter = @ + 1]
  /\ UNCHANGED <<chat, consolidation, shell, curation, completion>>

\* The model's response requests a tool call: it is dispatched.
ModelRequestsTool ==
  /\ agent.pc = "inTurn"
  /\ agent' = [agent EXCEPT
       !.pc = "dispatching", !.toolCalls = @ + 1,
       !.firstTurnToolCall = @ \/ agent.turnCounter = 1]
  /\ UNCHANGED <<chat, consolidation, shell, curation, completion>>

\* The dispatched tool returns and its function response is appended.
ToolReturns ==
  /\ agent.pc = "dispatching"
  /\ agent' = [agent EXCEPT !.pc = "top"]
  /\ UNCHANGED <<chat, consolidation, shell, curation, completion>>

\* The model's response requests no tool call and carries a structured
\* output. With every declared variable emitted the run ends with GOAL;
\* otherwise the response does not complete the run, which goes on to the
\* next turn or ends with ERROR.
ModelCompletes(structured, otherwise) ==
  /\ agent.pc = "inTurn"
  /\ LET emitted == Emit(agent.output.emitted_vars, structured)
         a == [agent EXCEPT !.output.emitted_vars = emitted]
     IN agent' = IF GoalMet(agent.outputs, emitted) THEN Terminate(a, "GOAL")
                 ELSE IF otherwise = "ERROR"
                      THEN Terminate([a EXCEPT !.engineError = TRUE], "ERROR")
                      ELSE [a EXCEPT !.pc = "top"]
  /\ UNCHANGED <<chat, consolidation, shell, curation, completion>>

\* The engine fails for good while the response is awaited.
EngineFails ==
  /\ agent.pc = "inTurn"
  /\ agent' = Terminate([agent EXCEPT !.engineError = TRUE], "ERROR")
  /\ UNCHANGED <<chat, consolidation, shell, curation, completion>>

\* A minute of wall-clock time passes while the run is under way.
MinutePasses ==
  /\ agent.pc \in {"top", "inTurn", "dispatching"}
  /\ agent.elapsed < agent.runConfig.max_time_minutes
  /\ agent' = [agent EXCEPT !.elapsed = @ + 1]
  /\ UNCHANGED <<chat, consolidation, shell, curation, completion>>

\* The caller that started the run itself cancels it.
CancelRun ==
  /\ agent.pc \in {"top", "inTurn", "dispatching"}
  /\ agent.caller = "direct"
  /\ ~agent.cancelled
  /\ agent' = [agent EXCEPT !.cancelled = TRUE]
  /\ UNCHANGED <<chat, consolidation, shell, curation, completion>>

\* The signal handed to planningTool.execute fires: neither createPlan nor
\* the sub-agent holds it.
SignalAborts ==
  /\ agent.pc \in {"top", "inTurn", "dispatching"}
  /\ agent.caller = "planning_tool"
  /\ ~agent.signalAborted
  /\ agent' = [agent EXCEPT !.signalAborted = TRUE]
  /\ UNCHANGED <<chat, consolidation, shell, curation, completion>>

\* The plan createPlan returns: the emitted plan on GOAL, else null.
Plan(output) ==
  IF output.terminate_reason = "GOAL"
       /\ "execution_plan" \in DOMAIN output.emitted_vars
       /\ output.emitted_vars["execution_plan"] # ""
  THEN output.emitted_vars["execution_plan"]
  ELSE null

\* runNonInteractive has ended: createPlan returns the plan or null, and
\* execute returns its result.
PlanningToolReturns ==
  /\ agent.pc = "done"
  /\ agent.caller = "planning_tool"
  /\ agent' = [agent EXCEPT
       !.pc = "returned",
       !.toolResult = ExecuteResult(Plan(agent.output))]
  /\ UNCHANGED <<chat, consolidation, shell, curation, completion>>

\* plannerAgent.runNonInteractive rejects: createPlan's catch returns null
\* and execute returns the failure.
PlanningToolRunRaises(reason) ==
  /\ agent.pc \in {"top", "inTurn", "dispatching"}
  /\ agent.caller = "planning_tool"
  /\ agent' = [agent EXCEPT
       !.pc = "returned", !.raised = TRUE,
       !.output.terminate_reason = reason,
       !.toolResult = ExecuteResult(null)]
  /\ UNCHANGED <<chat, consolidation, shell, curation, completion>>

NextAgent ==
  \/ PlanningToolExecute
  \/ PlanningToolCreateFails
  \/ \E rc \in RunConfigs, oc \in OutputConfigs : RunNonInteractive(rc, oc)
  \/ LoopTop
  \/ ModelRequestsTool
  \/ ToolReturns
  \/ \E structured \in StructuredOutputs(agent.outputs),
        otherwise \in {"nudge", "ERROR"} :
       ModelCompletes(structured, otherwise)
  \/ EngineFails
  \/ MinutePasses
  \/ CancelRun
  \/ SignalAborts
  \/ PlanningToolReturns

SpecAgent == Init /\ [][NextAgent]_vars

\* The loop takes its steps, the engine answers or fails, tools return.
SpecAgentLive ==
  /\ SpecAgent
  /\ WF_vars(LoopTop)
  /\ WF_vars(ModelRequestsTool \/ EngineFails
              \/ \E structured \in StructuredOutputs(agent.outputs),
                    otherwise \in {"nudge", "ERROR"} :
                   ModelCompletes(structured, otherwise))
  /\ WF_vars(ToolReturns)

\* The planning tool over a sub-agent whose run may also reject.
NextPlanningTool ==
  \/ NextAgent
  \/ \E reason \in {"none", "ERROR"} : PlanningToolRunRaises(reason)

SpecPlanningTool == Init /\ [][NextPlanningTool]_vars

(* ------------------------------ properties ---------------------------- *)

Range(q) == { q[k] : k \in 1..Len(q) }
Occurrences(q, x) == Cardinality({ k \in 1..Len(q) : q[k] = x })

\* user, model, user, model, ...
StrictlyAlternates(h) ==
  \A k \in 1..Len(h) : h[k].role = IF k % 2 = 1 THEN "user" ELSE "model"

NoModelStart(h) == Len(h) = 0 \/ h[1].role # "model"
NoSameRoleNeighbours(h) == \A k \in 1..(Len(h) - 1) : h[k].role # h[k + 1].role

IsStream(c) == calls[c].method = "sendMessageStream"
IsSend(c) == calls[c].method = "sendMessage"
StreamInProgress(c) ==
  IsStream(c) /\ calls[c].pc \in {"awaitStream", "backoff", "draining"}
StreamFailed(c) == IsStream(c) /\ calls[c].pc \in {"threw", "drainThrew"}

\* C1: the request a sendMessage call has out contains every turn that an
\* earlier sendMessage call on the engine, which has returned, appended to the
\* history and that the curated history keeps (its user turn, its valid model
\* turn); also when the later call was issued before the earlier one returned.
C1_SecondRequestHoldsFirstTurns ==
  \A a \in Calls : \A b \in Calls :
    ( /\ a < b
      /\ IsSend(a) /\ calls[a].pc = "returned"
      /\ IsSend(b) /\ calls[b].pc \in {"awaitResponse", "retryDelay"} )
    => \A t \in Range(extractCuratedHistory(history)) :
         t.id = a => t \in Range(calls[b].requestContents)

\* C2: while a sendMessageStream exchange is in progress (a request out, a
\* retry pending or its chunks not fully drained), no call issued after it
\* has gone past its wait for the earlier exchange: it has built no request
\* and has not touched the history.
C2_LaterCallWaitsForStream ==
  \A a \in Calls : \A b \in Calls :
    (a < b /\ StreamInProgress(a))
    => calls[b].pc \in {"idle", "awaitSendPromise"}

\* C3: once a sendMessageStream exchange has ended with the invalid-stream
\* error, the history does not contain the user turn pushed for it.
C3_InvalidStreamRollsBack ==
  \A c \in Calls :
    (IsStream(c) /\ calls[c].pc = "drainThrew"
       /\ calls[c].lastError = EmptyStreamError)
    => calls[c].userContent \notin Range(history)

\* C4: the curated history that getHistory(true) returns never starts with a
\* model turn and never has two neighbouring turns of the same role.
C4_CuratedAlternates ==
  returned.curated =>
    NoModelStart(returned.history) /\ NoSameRoleNeighbours(returned.history)

\* C5: from an empty history, whenever every exchange issued so far has
\* completed (and no addHistory or setHistory was called), the history reads
\* user, model, user, model, ...
C5_HistoryAlternates ==
  (\A c \in Calls : ~InProgress(c)) => StrictlyAlternates(history)

C7_UserTurnPushedOnce ==
  \A c \in Calls :
    StreamInProgress(c) =>
      /\ Occurrences(history, calls[c].userContent) = 1
      /\ Len(calls[c].requestContents) > 0
      /\ calls[c].requestContents[Len(calls[c].requestContents)]
           = calls[c].userContent
      /\ Occurrences(calls[c].requestContents, calls[c].userContent) = 1

\* Chunks are being delivered on the third attempt of an exchange.
C7_Witness ==
  \E c \in Calls :
    /\ IsStream(c) /\ calls[c].pc = "draining"
    /\ calls[c].attempt = MAX_RETRIES /\ calls[c].received > 0
    /\ Occurrences(history, calls[c].userContent) = 1

\* C8: once a sendMessageStream exchange has failed, the history is what it
\* was before the call (the caller issues its calls in turn here, so nothing
\* else touches the history meanwhile).
C8_FailedStreamRestoresHistory ==
  \A c \in Calls : StreamFailed(c) => history = calls[c].historyBefore

\* C9: a sendMessageStream exchange that has failed with an invalid stream or
\* with a 429/5xx error has used up its two extra attempts: such a failure is
\* followed by another attempt while fewer than two retries were made.
C9_RetryableFailureRetried ==
  \A c \in Calls :
    ( /\ StreamFailed(c)
      /\ \/ calls[c].lastError = EmptyStreamError
         \/ Includes429(calls[c].lastError)
         \/ Matches5xx(calls[c].lastError) )
    => calls[c].attempt = MAX_RETRIES

FirstAttemptFailedForGood(c) ==
  /\ StreamFailed(c)
  /\ calls[c].attempt = 0
  /\ calls[c].lastError \in {"400 Bad Request", QuotaGuardMessage}

\* C10 as claimed: a sendMessageStream call issues at most 3 requests, and
\* exactly 1 when its first attempt fails with an error that is neither
\* 429/5xx nor an invalid stream.
C10_ExactlyOneRequest ==
  \A c \in Calls :
    /\ IsStream(c) => calls[c].requests <= 3
    /\ FirstAttemptFailedForGood(c) => calls[c].requests = 1

\* C10 as amended: a sendMessageStream call issues at most 3 requests; a retry
\* is only ever pending after an invalid stream or a 429/5xx error; and when
\* its first attempt fails with another error it has issued 1 request, or
\* none when the error is the quota guard's, raised before the request.
C10_AtMostThreeRequests ==
  \A c \in Calls :
    /\ IsStream(c) => calls[c].requests <= 3
    /\ (IsStream(c) /\ calls[c].pc = "backoff") =>
         calls[c].lastError \notin {"400 Bad Request", QuotaGuardMessage}
    /\ FirstAttemptFailedForGood(c) =>
         calls[c].requests =
           IF calls[c].lastError = QuotaGuardMessage THEN 0 ELSE 1

\* The first attempt of a call failed on a 400 and the call raised at once.
C10_Witness ==
  \E c \in Calls :
    /\ FirstAttemptFailedForGood(c)
    /\ calls[c].lastError = "400 Bad Request"
    /\ calls[c].requests = 1

\* Some chunk that arrived for call c fails the validity rule.
InvalidArrived(c) ==
  \E k \in 1..Len(calls[c].arrived) : ~isValidResponse(calls[c].arrived[k])

\* C11: while a stream is drained, the caller has been handed exactly the
\* chunks that arrived, in their order, the invalid ones included, and the
\* stream is marked invalid exactly when some arrived chunk fails the
\* validity rule; the step that ends the drain raises the invalid-stream
\* error exactly when such a chunk arrived, and only after every arrived
\* chunk was handed on; no other step of the drain raises it.
C11_ChunksForwardedThenJudged ==
  /\ [](\A c \in Calls :
         calls[c].pc = "draining" =>
           /\ calls[c].forwarded = calls[c].arrived
           /\ calls[c].isStreamInvalid <=> InvalidArrived(c))
  /\ [][\A c \in Calls :
         (calls[c].pc = "draining" /\ calls'[c].pc # "draining")
         => /\ calls'[c].lastError = EmptyStreamError
                 => (InvalidArrived(c) /\ calls[c].forwarded = calls[c].arrived)
            /\ calls'[c].pc = "returned" => ~InvalidArrived(c)
            /\ (InvalidArrived(c) /\ calls'[c].lastError \notin StreamApiErrors)
                 => (calls'[c].pc = "drainThrew"
                       /\ calls'[c].lastError = EmptyStreamError)]_vars

\* An invalid chunk was followed by a valid one, both were handed on, and
\* no error has been raised: the drain goes on.
C11_Witness ==
  \E c \in Calls :
    /\ IsStream(c) /\ calls[c].pc = "draining"
    /\ calls[c].isStreamInvalid
    /\ Len(calls[c].forwarded) = MaxChunks
    /\ ~isValidResponse(calls[c].forwarded[1])
    /\ isValidResponse(calls[c].forwarded[MaxChunks])

\* C12: once a send call has failed, the promise that later calls await is
\* settled: a call issued after the failure that stands at its await is able
\* to go on to its own request.
C12_FailureReleasesPipeline ==
  /\ \A a \in Calls :
       calls[a].pc \in {"threw", "drainThrew"} => sendPromise = "resolved"
  /\ \A a \in Calls : \A b \in Calls :
       (a < b /\ calls[a].failed /\ calls[b].pc = "awaitSendPromise")
       => /\ sendPromise = "resolved"
          /\ ENABLED (SendMessageStart(b) \/ SendMessageStreamStart(b))

\* A call issued after a failed one has sent a request of its own.
C12_Witness ==
  \E a \in Calls : \E b \in Calls :
    a < b /\ calls[a].failed /\ calls[b].requests >= 1

\* C13: a step in which the caller mutates the array getHistory returned to
\* it (pops a turn, empties the parts of a turn) leaves the engine's history
\* as it was, for the curated and for the comprehensive reading.
C13_ReturnedCopyIsIndependent ==
  [][ (\E mutation \in Mutations : CallerMutatesReturned(mutation))
        => history' = history ]_vars

\* The caller holds a returned array that it has changed, after which the
\* engine's history still has its turns and what getHistory returned last
\* differs from it.
C13_Witness ==
  /\ constructed = "ok"
  /\ ~returned.curated
  /\ Len(history) = MaxHist
  /\ returned.history # <<>>
  /\ returned.history # history

\* C14: a step in which the caller mutates the array it handed to the
\* constructor or to setHistory leaves the engine's history as it was.
C14_ArgumentMutationKeptOut ==
  [][ (\E mutation \in Mutations : CallerMutatesArgument(mutation))
        => history' = history ]_vars

C16_NoFallbackFromFallbackModel ==
  [][\A c \in Calls :
       (config.model = DEFAULT_GEMINI_FLASH_MODEL
          /\ calls[c].pc = "awaitResponse")
       => /\ calls'[c].pc # "awaitFallback"
          /\ (calls'[c].pc # "awaitResponse"
                /\ calls'[c].lastError = "429 Too Many Requests"
                /\ calls[c].attempt >= RetryMaxAttempts)
               => (calls'[c].pc = "threw" /\ config' = config)
    ]_vars

\* A call downgraded the session, its further request met a persistent 429
\* on the fallback model, and the call ended with the 429 without the
\* handler being asked again.
C16_Witness ==
  \E c \in Calls :
    /\ IsSend(c) /\ calls[c].pc = "threw"
    /\ calls[c].lastError = "429 Too Many Requests"
    /\ calls[c].fellBack /\ calls[c].accepted = "none"
    /\ calls[c].attempt > RetryMaxAttempts
    /\ config.model = DEFAULT_GEMINI_FLASH_MODEL /\ config.fallbackMode

\* C17: the fallback handler is called only for a login session; when it
\* settles with false, null or a throw, the configuration stays as it is and
\* the call ends with the 429; when it settles with any other value, the
\* session's model is the fallback model, fallback mode is set and the
\* request is tried again.
C17_HandlerDecidesFallback ==
  [][\A c \in Calls :
       /\ (calls[c].pc # "awaitFallback" /\ calls'[c].pc = "awaitFallback")
            => calls'[c].authType = LOGIN_WITH_GOOGLE
       /\ (calls[c].pc = "awaitFallback" /\ calls'[c].pc # "awaitFallback")
            => IF calls'[c].accepted \in {"false", "null", "throws"}
               THEN /\ config' = config
                    /\ calls'[c].pc = "threw"
                    /\ calls'[c].lastError = "429 Too Many Requests"
               ELSE /\ config'.model = DEFAULT_GEMINI_FLASH_MODEL
                    /\ config'.fallbackMode
                    /\ calls'[c].pc = "retryDelay"
    ]_vars

\* The handler of a login session returned nothing, which is neither false
\* nor null: the session runs on the fallback model in fallback mode and the
\* call waits to try again.
C17_Witness ==
  \E c \in Calls :
    /\ calls[c].pc = "retryDelay" /\ calls[c].accepted = "undefined"
    /\ calls[c].authType = LOGIN_WITH_GOOGLE
    /\ config.model = DEFAULT_GEMINI_FLASH_MODEL /\ config.fallbackMode

\* The turns call c has appended to the history it started from.
Appended(c) ==
  SubSeq(history, Len(calls[c].historyBefore) + 1, Len(history))

SendReturned(c) ==
  /\ IsSend(c) /\ calls[c].pc = "returned"
  /\ SubSeq(history, 1, Len(calls[c].historyBefore)) = calls[c].historyBefore

HasAfcTrace(c) == calls[c].response.automaticFunctionCallingHistory # <<>>

\* The trace of call c's response without the turns that repeat the curated
\* history the call started from, curated.
CuratedNewTrace(c) ==
  LET trace == calls[c].response.automaticFunctionCallingHistory
  IN  extractCuratedHistory(
        SubSeq(trace, Len(extractCuratedHistory(calls[c].historyBefore)) + 1,
               Len(trace)))

\* C18: after a sendMessage has returned a response without model content,
\* the history is the one the call started from, then the user turn (or the
\* new turns of the function-calling trace when the response has one), then
\* an empty model turn, role model and no parts, if the user input was not a
\* function response, and nothing more if it was one.
C18_PlaceholderUnlessFunctionResponse ==
  \A c \in Calls :
    (IsSend(c) /\ calls[c].pc = "returned"
       /\ calls[c].response.content = NoContent)
    => /\ SendReturned(c)
       /\ LET input == IF HasAfcTrace(c) THEN CuratedNewTrace(c)
                       ELSE <<calls[c].userContent>>
              isResponse ==
                \A k \in 1..Len(calls[c].userContent.parts) :
                  calls[c].userContent.parts[k].functionResponse
          IN  Appended(c) =
                IF isResponse THEN input
                ELSE Append(input, [role |-> "model", parts |-> <<>>, id |-> c])

\* A function response was sent, the response had no content and no trace,
\* and the user turn alone was appended.
C18_Witness ==
  \E c \in Calls :
    /\ SendReturned(c) /\ ~HasAfcTrace(c)
    /\ calls[c].response.content = NoContent
    /\ calls[c].userContent.parts = <<FunctionResponsePart>>
    /\ Appended(c) = <<calls[c].userContent>>

\* C20 as stated: after a sendMessage has returned a response with a
\* function-calling trace, the turns appended are exactly the new turns of
\* the curated trace: neither the user turn nor a model turn is appended
\* beside them.
C20_TraceReplacesBothAppends ==
  \A c \in Calls :
    (IsSend(c) /\ calls[c].pc = "returned" /\ HasAfcTrace(c))
    => (SendReturned(c) /\ Appended(c) = CuratedNewTrace(c))

\* C20, amended: the turns appended are the new turns of the curated trace,
\* which stand in for the user turn, followed by the model output as for a
\* response without trace: the non-thought content as a turn of its own, the
\* empty model turn for no content unless the input was a function response,
\* nothing for a thought; no turn the history already held is among them.
C20_TraceReplacesUserAppend ==
  \A c \in Calls :
    (IsSend(c) /\ calls[c].pc = "returned" /\ HasAfcTrace(c))
    => /\ SendReturned(c)
       /\ LET content == calls[c].response.content
              isResponse ==
                \A k \in 1..Len(calls[c].userContent.parts) :
                  calls[c].userContent.parts[k].functionResponse
              output ==
                IF content = NoContent
                THEN IF isResponse THEN <<>>
                     ELSE <<[role |-> "model", parts |-> <<>>, id |-> c]>>
                ELSE IF content.parts[1].thought THEN <<>>
                ELSE <<content>>
          IN  /\ Appended(c) = CuratedNewTrace(c) \o output
              /\ \A k \in 1..Len(Appended(c)) :
                   Appended(c)[k] \notin Range(calls[c].historyBefore)

\* The history the call started from holds a turn the curated history
\* drops; the response had a trace and a text content; the trace's new turns
\* and then the model's text turn were appended.
C20_Witness ==
  \E c \in Calls :
    /\ SendReturned(c) /\ HasAfcTrace(c)
    /\ Len(extractCuratedHistory(calls[c].historyBefore))
         < Len(calls[c].historyBefore)
    /\ calls[c].response.content # NoContent
    /\ Appended(c) = CuratedNewTrace(c) \o <<calls[c].response.content>>
    /\ Len(CuratedNewTrace(c)) > 1

\* The texts of the text parts of parts[k..], concatenated in order.
RECURSIVE PartsText(_, _)
PartsText(parts, k) ==
  IF k > Len(parts) THEN ""
  ELSE (IF parts[k].text # Undefined THEN parts[k].text ELSE "")
         \o PartsText(parts, k + 1)

\* The texts of the text parts of contents[k..], concatenated in order.
RECURSIVE ContentsText(_, _)
ContentsText(contents, k) ==
  IF k > Len(contents) THEN ""
  ELSE PartsText(contents[k].parts, 1) \o ContentsText(contents, k + 1)

\* Every content of the output is text and nothing else.
PureText(contents) ==
  \A k \in 1..Len(contents) :
    \A j \in 1..Len(contents[k].parts) :
      contents[k].parts[j].text # Undefined

C22_NoThoughtPartRecorded ==
  \A k \in 1..Len(history) :
    (history[k].role = "model" /\ history[k].id \in Calls) =>
      \A j \in 1..Len(history[k].parts) : ~history[k].parts[j].thought

\* exitCode === 0 && signal === null
CleanExit(result) == result.exitCode = 0 /\ result.signal = null

\* Every element of text occurs in output, in the order of text.
RECURSIVE ContainsText(_, _)
ContainsText(output, text) ==
  \/ text = <<>>
  \/ /\ output # <<>>
     /\ IF Head(output) = Head(text)
        THEN ContainsText(Tail(output), Tail(text))
        ELSE ContainsText(Tail(output), text)

\* The process of the execute call has been reaped and the result resolved.
Reaped == shell.pc = "resolved" /\ shell.process = "reaped"

\* The command prints text and nothing else.
PrintsText == \A k \in 1..Len(shell.command.prints) :
                shell.command.prints[k] # "binary"

\* C23: a command that prints text and exits with code 0, never cancelled,
\* resolves with exitCode 0, signal null, error null, aborted false and an
\* output that contains the printed text, with pipes and with a PTY.
C23_CleanRunResolvesClean ==
  (Reaped /\ shell.command.exitCode = 0 /\ shell.abortAt = "never"
     /\ PrintsText) =>
    /\ shell.result.exitCode = 0
    /\ shell.result.signal = null
    /\ shell.result.error = null
    /\ shell.result.aborted = FALSE
    /\ ContainsText(shell.result.output, shell.command.prints)

\* A PTY run of a command that prints MaxPrints chunks of text and exits
\* with code 0 has resolved without a cancellation.
C23_Witness ==
  /\ Reaped /\ shell.usePty /\ shell.command.exitCode = 0
  /\ shell.abortAt = "never" /\ PrintsText
  /\ Len(shell.command.prints) = MaxPrints

C25_AbortedIffRequestedBeforeReaping ==
  Reaped =>
    /\ shell.result.aborted <=> (shell.abortAt \in {"running", "exited"})
    /\ (shell.abortAt = "running" /\ ~shell.terminateDelivered)
         => shell.result.aborted
    /\ shell.abortAt = "never" => ~shell.result.aborted

\* The process exited on its own after the request, before the request
\* reached it, and has been reaped.
C25_Witness ==
  /\ Reaped /\ shell.abortAt = "running" /\ ~shell.terminateDelivered
  /\ shell.result.signal = null /\ shell.result.aborted

\* The signals the executor sends: the termination request comes first, the
\* forceful kill after the grace period; the result is resolved once, and
\* for a spawned process only after reaping.
SignalsInOrder ==
  /\ shell.signals \in {<<>>, <<"SIGTERM">>, <<"SIGTERM", "SIGKILL">>}
  /\ shell.abortAt \in {"running", "exited"} => shell.signals # <<>>
  /\ Len(shell.signals) = 2 => shell.graceElapsed
  /\ shell.resolutions <= 1
  /\ (shell.pc = "resolved" /\ shell.result.error = null)
       => shell.process = "reaped"
  /\ shell.pc = "resolved" <=> shell.resolutions = 1

\* The forceful kill is sent only to a process that has not exited, and a
\* resolved result does not change.
KillOnlyIfRunning ==
  /\ Len(shell'.signals) > Len(shell.signals) /\ shell.signals # <<>>
       => shell.process = "running"
  /\ shell.pc = "resolved" => shell'.result = shell.result

\* C26: after the cancel signal fires the executor requests termination
\* of the process group first and sends the forceful kill only if the process
\* has not exited when the grace period ends; the result is resolved in the
\* end, exactly once, after the process has been reaped.
C26_TerminateThenKillThenResolve ==
  /\ []SignalsInOrder
  /\ [][KillOnlyIfRunning]_vars
  /\ (shell.aborted ~> shell.pc = "resolved")

\* A process that ignored the termination request was killed after the
\* grace period and has been reaped.
C26_Witness ==
  /\ Reaped /\ shell.signals = <<"SIGTERM", "SIGKILL">>
  /\ shell.result.signal = "SIGKILL" /\ shell.result.aborted

\* The sub-agent run has ended.
RunEnded == agent.output.terminate_reason # "none"

\* The turn counter stays within the budget, and a run with a budget of one
\* turn whose first response requested a tool ends with MAX_TURNS unless the
\* time budget ran out or the caller cancelled before the next turn.
WithinTurnBudget ==
  /\ agent.turnCounter <= agent.runConfig.max_turns
  /\ (RunEnded /\ agent.runConfig.max_turns = 1 /\ agent.firstTurnToolCall) =>
       /\ agent.output.terminate_reason # "GOAL"
       /\ agent.output.terminate_reason \in {"MAX_TURNS", "TIMEOUT", "ABORTED"}
       /\ (~TimeBudgetSpent(agent) /\ ~agent.cancelled)
            => agent.output.terminate_reason = "MAX_TURNS"

\* A turn starts only from the top of the loop, with budget left.
TurnStartsWithinBudget ==
  agent'.turnCounter > agent.turnCounter =>
    /\ agent.pc = "top"
    /\ agent.turnCounter < agent.runConfig.max_turns
    /\ agent'.turnCounter = agent.turnCounter + 1

EndsWithReason ==
  /\ agent.pc \in {"done", "returned"} /\ agent.caller # "none"
       /\ agent.toolResult.error # failureMessage
       => RunEnded
  /\ RunEnded =>
       /\ agent.pc \in {"done", "returned"}
       /\ agent.output.terminate_reason \in TerminateModes
       /\ ~agent.raised
       /\ agent.output.terminate_reason = "MAX_TURNS" => TurnBudgetSpent(agent)
       /\ agent.output.terminate_reason = "TIMEOUT" => TimeBudgetSpent(agent)
       /\ agent.output.terminate_reason = "ERROR" => agent.engineError
       /\ agent.output.terminate_reason = "ABORTED" => agent.cancelled

\* The reason of an ended run does not change.
ReasonSetOnce ==
  RunEnded => agent'.output.terminate_reason = agent.output.terminate_reason

C29_GoalOnlyWithAllOutputs ==
  agent.output.terminate_reason = "GOAL" =>
    \A v \in agent.outputs :
      /\ v \in DOMAIN agent.output.emitted_vars
      /\ agent.output.emitted_vars[v] \in EmittedValues

\* A run that declares two variables has ended with GOAL in a later turn
\* than its first.
C29_Witness ==
  /\ agent.output.terminate_reason = "GOAL"
  /\ agent.outputs = {"execution_plan", "summary"}
  /\ agent.turnCounter > 1

\* A cancel signal has fired: the caller's own, or the one handed to the
\* planning tool's execute.
CancelSignalFired == agent.cancelled \/ agent.signalAborted

\* Once a cancel signal has fired no further turn starts.
NoTurnAfterCancel ==
  CancelSignalFired => agent'.turnCounter = agent.turnCounter

\* C30: after the cancel signal has fired the loop starts no further turn,
\* and with it dispatches no tool call of a further turn, also when the
\* signal was handed to the planning tool's execute.
C30_CancelStopsNextTurn == [][NoTurnAfterCancel]_vars

\* planningTool.execute has returned its result.
ExecuteReturned == agent.pc = "returned"

\* The sub-agent ended with GOAL, without raising, and emitted a plan that
\* is not the empty string.
GoalWithPlan ==
  /\ ~agent.raised
  /\ agent.output.terminate_reason = "GOAL"
  /\ "execution_plan" \in DOMAIN agent.output.emitted_vars
  /\ agent.output.emitted_vars["execution_plan"] # ""

\* C31: execute returns success = true with the parsed plan exactly when
\* the sub-agent ended with GOAL and emitted a non-empty execution_plan that
\* parses as JSON; for any other reason, a missing or empty plan, or a
\* rejection while the sub-agent is created or run, it returns a result with
\* success = false, and it returns a result in every case.
C31_SuccessIffGoalWithJsonPlan ==
  ExecuteReturned =>
    /\ agent.toolResult # NoToolResult
    /\ agent.toolResult.success <=>
         (GoalWithPlan
            /\ ParsesAsJson(agent.output.emitted_vars["execution_plan"]))
    /\ agent.toolResult.success =>
         agent.toolResult.plan
           = JsonParse(agent.output.emitted_vars["execution_plan"])
    /\ ~agent.toolResult.success =>
         /\ agent.toolResult.plan = NoPlan
         /\ agent.toolResult.error \in {failureMessage, "Invalid JSON response"}

\* execute has returned the parsed plan of a sub-agent that ended with GOAL
\* after more than one turn.
C31_Witness ==
  /\ ExecuteReturned /\ agent.toolResult.success
  /\ agent.output.emitted_vars["execution_plan"] = "[ 1 ]"
  /\ agent.turnCounter > 1

\* C32: when the sub-agent ended with GOAL and the emitted plan is not
\* valid JSON, execute returns a result with success = false and the error
\* 'Invalid JSON response', and the display text is the emitted text as it is.
C32_InvalidJsonSurfacedRaw ==
  (ExecuteReturned /\ GoalWithPlan
     /\ ~ParsesAsJson(agent.output.emitted_vars["execution_plan"])) =>
    /\ ~agent.toolResult.success
    /\ agent.toolResult.error = "Invalid JSON response"
    /\ agent.toolResult.returnDisplay
         = agent.output.emitted_vars["execution_plan"]

\* execute has returned for a sub-agent that ended with GOAL and a plan
\* that is no JSON.
C32_Witness ==
  /\ ExecuteReturned /\ GoalWithPlan
  /\ agent.output.emitted_vars["execution_plan"] = "not a valid json"
  /\ agent.toolResult.error = "Invalid JSON response"

\* A turn is invalid: it has no part, or a part without keys, or a text part
\* that is no thought and is the empty string.
InvalidTurn(turn) ==
  \/ Len(turn.parts) = 0
  \/ \E k \in 1..Len(turn.parts) :
       \/ turn.parts[k] = EmptyPart
       \/ ~turn.parts[k].thought /\ turn.parts[k].text = ""

\* Turns j and k of h lie in one run of consecutive model turns.
SameModelRun(h, j, k) ==
  \A m \in 1..Len(h) :
    ((j <= m /\ m <= k) \/ (k <= m /\ m <= j)) => h[m].role = "model"

\* Turn k is a user turn, or a model turn of a run without an invalid turn.
KeptTurn(h, k) ==
  \/ h[k].role = "user"
  \/ /\ h[k].role = "model"
     /\ \A j \in 1..Len(h) : SameModelRun(h, j, k) => ~InvalidTurn(h[j])

\* The kept turns of h[k..], in their order.
RECURSIVE KeptTurns(_, _)
KeptTurns(h, k) ==
  IF k > Len(h) THEN <<>>
  ELSE (IF KeptTurn(h, k) THEN <<h[k]>> ELSE <<>>) \o KeptTurns(h, k + 1)

\* C33: the curated history of a comprehensive history of user and model
\* turns is the subsequence of every user turn and every maximal run of
\* consecutive model turns without an invalid turn, in the original order; a
\* run with an invalid turn is dropped as a whole.
C33_CuratedIsValidRuns ==
  curation.done =>
    curation.curatedHistory = KeptTurns(curation.comprehensiveHistory, 1)

\* A history of MaxHist turns with a run of a valid and an invalid model
\* turn has been curated down to its user turn.
C33_Witness ==
  /\ curation.done
  /\ Len(curation.comprehensiveHistory) = MaxHist
  /\ Len(curation.curatedHistory) = 1
  /\ \E k \in 1..MaxHist :
       /\ curation.comprehensiveHistory[k].role = "model"
       /\ isValidContent(curation.comprehensiveHistory[k])

\* A step in which a sendMessageStream call throws raises the error of the
\* attempt made in that step: the error of the rejected request, or the
\* quota guard's error when the guard stopped the attempt.
ThrowsErrorOfLastAttempt ==
  \A c \in Calls :
    /\ \A errorMessage \in StreamApiErrors :
         (StreamRequestFails(c, errorMessage) /\ calls'[c].pc = "threw")
           => calls'[c].lastError = errorMessage
    /\ ((StreamBackoffElapsed(c) \/ SendMessageStreamStart(c))
          /\ calls'[c].pc = "threw")
         => calls'[c].lastError = QuotaGuardMessage

\* C34: a sendMessageStream call that fails after several attempts which
\* raised different errors raises the error of the last attempt made, not
\* the error of the first.
C34_LastErrorRaised == [][ThrowsErrorOfLastAttempt]_vars

\* A sendMessageStream call has thrown the quota guard's error from a later
\* attempt, after an earlier attempt whose request was rejected with another
\* error.
C34_Witness ==
  \E c \in Calls :
    /\ IsStream(c) /\ calls[c].pc = "threw"
    /\ calls[c].lastError = QuotaGuardMessage
    /\ calls[c].requests >= 1 /\ calls[c].attempt >= 1

SendFailed(c) == IsSend(c) /\ calls[c].pc = "threw"

\* C35: once a sendMessage call has raised, the comprehensive history is
\* what it was before the call: neither the user turn nor a model turn was
\* appended (the caller issues its calls in turn, so nothing else touches
\* the history meanwhile).
C35_FailedSendLeavesHistory ==
  \A c \in Calls : SendFailed(c) => history = calls[c].historyBefore

\* A sendMessage call has raised after its request went out more than once,
\* on a session whose history already holds an earlier exchange.
C35_Witness ==
  \E c \in Calls :
    /\ SendFailed(c) /\ calls[c].requests > 1
    /\ Len(history) > 0
    /\ calls[c].userContent \notin Range(history)

ModelTurns(h) == SelectSeq(h, LAMBDA content : content.role = "model")

\* The parts of the chunks of a stream, one chunk after the other.
RECURSIVE ArrivedParts(_)
ArrivedParts(chunks) ==
  IF chunks = <<>> THEN <<>>
  ELSE Head(chunks).parts \o ArrivedParts(Tail(chunks))

\* A step of a stream being drained appends a model turn only when it ends
\* the drain of a stream whose chunks were all valid and all handed to the
\* caller, and then the one turn appended holds the parts of the chunks in
\* the order they arrived; and only such a step changes the model turns of
\* the history.
DrainCommitsOnFullDrain ==
  /\ \A c \in Calls :
       (IsStream(c) /\ calls[c].pc = "draining") =>
         IF calls'[c].pc = "returned"
         THEN /\ \A k \in 1..Len(calls[c].arrived) :
                   isValidResponse(calls[c].arrived[k])
              /\ calls[c].forwarded = calls[c].arrived
              /\ history' = Append(history,
                   Content("model", ArrivedParts(calls[c].arrived), c))
         ELSE ModelTurns(history') = ModelTurns(history)
  /\ ModelTurns(history') # ModelTurns(history) =>
       \E c \in Calls :
         /\ IsStream(c) /\ calls[c].pc = "draining"
         /\ calls'[c].pc = "returned"

\* C36: in a sendMessageStream exchange a model turn is appended only after
\* the caller has consumed the last chunk of a stream whose chunks are all
\* valid, and then exactly one model turn is appended, whose parts are the
\* parts of all chunks in arrival order; while the stream is partly drained,
\* or when the caller abandons it, no model turn is appended.
C36_ModelTurnOnFullDrainOnly == [][DrainCommitsOnFullDrain]_vars

\* One exchange was drained to its end with two chunks of different parts,
\* whose parts are the last turn of the history in arrival order, and
\* another exchange was abandoned by its caller, leaving no model turn.
C36_Witness ==
  \E c, d \in Calls :
    /\ IsStream(c) /\ calls[c].pc = "returned"
    /\ history[Len(history)] =
         Content("model", <<TextPart("a"), ThoughtPart>>, c)
    /\ calls[d].pc = "settled" /\ ~calls[d].failed
    /\ Len(ModelTurns(history)) = 1

\* C37: every model turn that a stream drain has appended to the history is
\* a valid turn (at least one part, no wholly empty part, no empty
\* non-thought text), for every stream that completed without the
\* invalid-stream error, a stream of zero chunks included.
C37_DrainedTurnIsValid ==
  \A k \in 1..Len(history) :
    history[k].role = "model" => isValidContent(history[k])

\* The newest request of the hook is in flight and has not been aborted.
NewestPending(hook) ==
  /\ hook.requests # <<>>
  /\ hook.requests[Len(hook.requests)].status = "inFlight"
  /\ ~hook.requests[Len(hook.requests)].aborted

\* A step that starts a request aborts every request made before; a step
\* in which the response of an aborted request arrives leaves the ghost
\* text as it was; a step that sets the ghost text to a suggestion is the
\* arrival of the response of the newest request, not aborted, and the
\* suggestion starts with the trimmed text that request was issued for.
GhostTextFromNewestRequest ==
  /\ Len(completion'.requests) > Len(completion.requests) =>
       \A r \in 1..Len(completion.requests) : completion'.requests[r].aborted
  /\ \A r \in 1..MaxRequests : \A responseText \in ResponseTexts :
       (ResponseArrives(r, responseText) /\ completion.requests[r].aborted)
         => completion'.ghostText = completion.ghostText
  /\ (completion'.ghostText # <<>>
        /\ completion'.ghostText # completion.ghostText) =>
       \E r \in 1..MaxRequests : \E responseText \in ResponseTexts :
         /\ ResponseArrives(r, responseText)
         /\ r = Len(completion.requests)
         /\ ~completion.requests[r].aborted
         /\ StartsWith(completion'.ghostText,
                       completion.requests[r].trimmedText)

\* C38: in the prompt-completion hook, starting a new suggestion request
\* aborts the request still in flight, the response of an aborted request
\* never sets the ghost text, and the ghost text is only ever set from the
\* response of the most recent request, to a suggestion that starts with
\* the trimmed text that request was issued for.
C38_GhostTextOnlyFromNewestRequest == [][GhostTextFromNewestRequest]_vars

\* A first request was aborted by a second one and has settled, and the
\* ghost text shown is the suggestion of the second request.
C38_Witness ==
  /\ Len(completion.requests) = 2
  /\ completion.requests[1].aborted
  /\ completion.requests[1].status = "settled"
  /\ ~completion.requests[2].aborted
  /\ completion.requests[2].status = "settled"
  /\ completion.requests[2].trimmedText # completion.requests[1].trimmedText
  /\ completion.ghostText # <<>>
  /\ StartsWith(completion.ghostText, completion.requests[2].trimmedText)

\* A step in which a request made before the newest one settles (its
\* response arrives or it is rejected) while the newest request is pending
\* leaves isLoading true.
SupersededKeepsLoading ==
  \A r \in 1..MaxRequests :
    ( /\ \/ \E responseText \in ResponseTexts :
              ResponseArrives(r, responseText)
         \/ \E errorName \in ErrorNames : RequestRejects(r, errorName)
      /\ r < Len(completion.requests)
      /\ NewestPending(completion)
      /\ completion.isLoadingGhostText )
    => completion'.isLoadingGhostText

\* C39: in the prompt-completion hook, isLoading stays true for as long as
\* the most recent suggestion request is in flight and has not been aborted:
\* the completion, failure or abort of an earlier, superseded request never
\* resets isLoading to false while the newer request is still pending.
C39_SupersededNeverResetsLoading == [][SupersededKeepsLoading]_vars

====
